---- MODULE Spec2Model ----
(***************************************************************************)
(* State-machine model of the KRX/NXT arbitrage engine: Throttler          *)
(* (src/src/core/throttler.py), ExecutionGateway                           *)
(* (src/src/kiwoom/execution_gateway.py), PairManager                      *)
(* (src/src/core/pair_manager.py), Router (src/src/core/router.py) and     *)
(* SessionStateManager (src/src/core/session_state.py).                    *)
(*                                                                         *)
(* Time is discrete: one tick is 1/TicksPerSec second.  Bucket token       *)
(* counts are fixed-point numbers scaled by TicksPerSec, so that the       *)
(* float arithmetic of TokenBucket._refill (elapsed * rate) is exact on    *)
(* the tick grid.  A bucket is held as the amount _refill computes at the  *)
(* current instant: since min(C, min(C, t + a*r) + b*r) = min(C, t +       *)
(* (a+b)*r), refilling at every tick leaves every request with the amount  *)
(* the lazy refill of the code gives it.  Every handler of the program is  *)
(* an operator from a state record to a state record; an action applies    *)
(* one handler to the current state and commits the result.                *)
(***************************************************************************)
EXTENDS Integers, Sequences, FiniteSets, TLC

VARIABLES
    orders_bucket,      \* Throttler.orders_bucket
    queries_bucket,     \* Throttler.queries_bucket
    is_auto_paused,     \* Throttler.is_auto_paused
    high_utilization_start_time, \* None, or ticks elapsed since that time
    monitor_timer,      \* ticks since Throttler.monitor_timer last fired
    trading_state,      \* SessionStateManager.trading_state
    clock,              \* the wall clock, in seconds since midnight
    krx_trading_hours,  \* SessionStateManager.krx_trading_hours
    nxt_session_state,  \* SessionStateManager.nxt_session_state
    max_concurrent_symbols, \* PairManager.max_concurrent_symbols (config)
    active_pairs,       \* PairManager.active_pairs: pair_id -> PairTrade
    symbol_pairs,       \* PairManager.symbol_pairs: symbol -> <<pair_id>>
    order_to_pair,      \* PairManager.order_to_pair: order_id -> pair_id
    next_pair_id,       \* Router._generate_pair_id: next fresh pair id
    stats,              \* PairManager.stats: total_pairs, completed_pairs,
                        \* failed_pairs
    active_orders,      \* ExecutionGateway.active_orders: id -> OrderRecord
    kiwoom_to_client_id,\* ExecutionGateway.kiwoom_to_client_id
    order_seq,          \* client order ids generated so far, per pair
    venue,              \* orders the broker has received: id -> status
    available_screens,  \* config.kiwoom.screen_numbers["marketdata"]
    symbols,            \* MarketDataManager.symbols
    quotes,             \* MarketDataManager.quotes: symbol -> QuoteSnapshot
    dirty_symbols,      \* MarketDataManager.dirty_symbols
    screen_shards,      \* MarketDataManager.screen_shards: screen -> symbols
    symbol_to_screen,   \* MarketDataManager.symbol_to_screen
    symbol_cooldowns,   \* SpreadEngine.symbol_cooldowns: symbol -> the
                        \* milliseconds left until cooldown_until
    last,               \* the last operation: what it returned, the token
                        \* requests it made and the events it emitted
    grant_log           \* per bucket, the number of requests granted a ticks
                        \* ago, for every a below TicksPerSec

vars == <<orders_bucket, queries_bucket, is_auto_paused,
          high_utilization_start_time, monitor_timer, trading_state,
          clock, krx_trading_hours, nxt_session_state,
          max_concurrent_symbols, active_pairs, symbol_pairs, order_to_pair,
          next_pair_id, stats, active_orders, kiwoom_to_client_id,
          order_seq, venue,
          available_screens, symbols, quotes, dirty_symbols, screen_shards,
          symbol_to_screen, symbol_cooldowns, last, grant_log>>

(***************************************************************************)
(* Bounds of the model                                                     *)
(***************************************************************************)
TicksPerSec == 2        \* clock resolution: ticks per second
MaxCount == 2           \* largest token count of one direct request
MaxPairs == 2           \* pairs admitted in one run
MaxTracedPairs == 1     \* pairs admitted in one run that follows every event
MaxOrdersPerPair == 3   \* orders one pair sends (take, hedge, escalations)
MaxQty == 2             \* largest signal.max_qty
MaxRedeliveries == 1    \* times the broker repeats a fill report of one order
ClockMargin == 2        \* seconds followed one by one around each time the
                        \* session check compares the clock with
Symbols == {"005930", "000660"}
MaxUniverse == 101      \* largest number of symbols of a loaded universe
MaxScreens == 2         \* largest number of configured market data screens
MaxFailedPairs == 3     \* largest stats["failed_pairs"] followed

(***************************************************************************)
(* Program constants                                                       *)
(***************************************************************************)
orders_bucket_per_sec == 5
queries_bucket_per_sec == 5
min_tokens_free_to_start_new_pair == 4
reserve_order_tokens == 2
default_max_concurrent_symbols == 2
max_outstanding_pairs_per_symbol == 1
auto_pause_threshold_pct == 80
auto_pause_sustain_seconds == 5
pilot_qty == 1

\* SpreadEngineConfig
batch_interval_ms == 10
min_net_ticks_after_fees == 1
also_require_min_visible_qty == 1
cooldown_ms == 100
\* FeesConfig, in hundredths of a basis point: 1.5, 1.45 and 20.0 bps
krx_broker_bps == 150
nxt_broker_bps == 145
nxt_regulatory_bps == 0
trade_tax_bps == 2000
\* amounts of money are held in units of 1/MoneyScale KRW: a price times
\* hundredths of a basis point, before the division by 10000
MoneyScale == 1000000
\* the pilot cap of ArbitrageSignal.max_qty
pilot_cap == 10
\* MarketDataManager.max_symbols_per_screen
max_symbols_per_screen == 100
\* KiwoomConfig.screen_numbers["marketdata"]
marketdata_screens == <<101, 102, 103, 104>>

arm_only_in_overlap == TRUE
use_fid_215_signals == TRUE

\* datetime.time(h, m, s), in seconds since midnight
TimeOfDay(h, m, s) == h * 3600 + m * 60 + s
krx_start == TimeOfDay(9, 0, 0)
krx_end == TimeOfDay(15, 20, 0)
nxt_start == TimeOfDay(9, 0, 30)
nxt_end == TimeOfDay(15, 20, 0)
overlap_window_start == TimeOfDay(9, 0, 32)
overlap_window_end == TimeOfDay(15, 19, 50)

\* NXTSessionState: the codes of FID 215
NXTSessionState == {"P", "Q", "R", "S", "T", "U", "V"}
MAIN_OPEN == "R"
\* Optional[NXTSessionState]: no code received yet
NoSession == "None"

None == -1
NoOrder == <<>>
ORDERS == "orders"
QUERIES == "queries"
URGENT == 0
NORMAL == 1

Min(a, b) == IF a <= b THEN a ELSE b
EmptyMap == [x \in {} |-> 0]
Put(f, k, v) == [x \in (DOMAIN f) \cup {k} |-> IF x = k THEN v ELSE f[x]]
Del(f, k) == [x \in (DOMAIN f) \ {k} |-> f[x]]

(***************************************************************************)
(* TokenBucket                                                             *)
(***************************************************************************)
\* TokenBucket.__init__: capacity = rate, tokens = capacity
TokenBucket(rate) ==
    [rate |-> rate, capacity |-> rate, tokens |-> rate * TicksPerSec]

\* TokenBucket._refill after elapsed ticks:
\* tokens = min(capacity, tokens + elapsed * rate)
Refill(b, elapsed) ==
    [b EXCEPT !.tokens = Min(b.capacity * TicksPerSec,
                             b.tokens + elapsed * b.rate)]

\* TokenBucket.get_available_tokens: int(self.tokens)
GetAvailableTokens(b) == b.tokens \div TicksPerSec

\* TokenBucket.request_tokens: the value it returns, tokens >= count
BucketGrants(b, count) == b.tokens >= count * TicksPerSec

\* TokenBucket.request_tokens: the bucket it leaves
BucketRequestTokens(b, count) ==
    IF BucketGrants(b, count)
    THEN [b EXCEPT !.tokens = @ - count * TicksPerSec]
    ELSE b

\* TokenBucket.get_utilization >= threshold, with utilization
\* 1.0 - tokens / capacity and the threshold given in percent
UtilizationAtLeast(b, pct) ==
    (b.capacity * TicksPerSec - b.tokens) * 100
        >= pct * b.capacity * TicksPerSec

\* the clock advances by one tick
Advance(b) == Refill(b, 1)

(***************************************************************************)
(* The state record the handlers work on                                   *)
(***************************************************************************)
Cur ==
    [orders_bucket |-> orders_bucket, queries_bucket |-> queries_bucket,
     is_auto_paused |-> is_auto_paused,
     high_utilization_start_time |-> high_utilization_start_time,
     trading_state |-> trading_state, clock |-> clock,
     krx_trading_hours |-> krx_trading_hours,
     nxt_session_state |-> nxt_session_state,
     max_concurrent_symbols |-> max_concurrent_symbols,
     active_pairs |-> active_pairs, symbol_pairs |-> symbol_pairs,
     order_to_pair |-> order_to_pair, next_pair_id |-> next_pair_id,
     stats |-> stats,
     active_orders |-> active_orders,
     kiwoom_to_client_id |-> kiwoom_to_client_id,
     order_seq |-> order_seq, venue |-> venue,
     available_screens |-> available_screens, symbols |-> symbols,
     quotes |-> quotes, dirty_symbols |-> dirty_symbols,
     screen_shards |-> screen_shards, symbol_to_screen |-> symbol_to_screen,
     symbol_cooldowns |-> symbol_cooldowns,
     req |-> <<>>, ev |-> <<>>]

Commit(S) ==
    /\ orders_bucket' = S.orders_bucket
    /\ queries_bucket' = S.queries_bucket
    /\ is_auto_paused' = S.is_auto_paused
    /\ high_utilization_start_time' = S.high_utilization_start_time
    /\ trading_state' = S.trading_state
    /\ clock' = S.clock
    /\ krx_trading_hours' = S.krx_trading_hours
    /\ nxt_session_state' = S.nxt_session_state
    /\ max_concurrent_symbols' = S.max_concurrent_symbols
    /\ active_pairs' = S.active_pairs
    /\ symbol_pairs' = S.symbol_pairs
    /\ order_to_pair' = S.order_to_pair
    /\ next_pair_id' = S.next_pair_id
    /\ stats' = S.stats
    /\ active_orders' = S.active_orders
    /\ kiwoom_to_client_id' = S.kiwoom_to_client_id
    /\ order_seq' = S.order_seq
    /\ venue' = S.venue
    /\ available_screens' = S.available_screens
    /\ symbols' = S.symbols
    /\ quotes' = S.quotes
    /\ dirty_symbols' = S.dirty_symbols
    /\ screen_shards' = S.screen_shards
    /\ symbol_to_screen' = S.symbol_to_screen
    /\ symbol_cooldowns' = S.symbol_cooldowns

(***************************************************************************)
(* Throttler                                                               *)
(***************************************************************************)
\* Throttler.__init__: the reservation is read from
\* throttling_config.min_tokens_free_to_start_new_pair
reserved_order_tokens == min_tokens_free_to_start_new_pair

\* a throttler whose pause does not stop NORMAL requests
TokenResponseIgnoringPause(S, token_type, count, priority) ==
    IF /\ token_type = ORDERS
       /\ priority > 0
       /\ GetAvailableTokens(S.orders_bucket) - min_tokens_free_to_start_new_pair
              < count
    THEN [granted |-> FALSE,
          reason |-> "insufficient_tokens_after_reservation"]
    ELSE IF (IF token_type = ORDERS THEN S.orders_bucket
             ELSE S.queries_bucket).tokens >= count * TicksPerSec
    THEN [granted |-> TRUE, reason |-> ""]
    ELSE [granted |-> FALSE, reason |-> "rate_limit_exceeded"]

\* Throttler.request_tokens: the TokenResponse, as [granted, reason]
TokenResponse(S, token_type, count, priority) ==
    IF token_type = ORDERS /\ priority > 0 /\ S.is_auto_paused
    THEN [granted |-> FALSE, reason |-> "auto_paused"]
    ELSE IF /\ token_type = ORDERS
            /\ priority > 0
            /\ GetAvailableTokens(S.orders_bucket) - reserved_order_tokens
                   < count
    THEN [granted |-> FALSE,
          reason |-> "insufficient_tokens_after_reservation"]
    ELSE IF BucketGrants(IF token_type = ORDERS THEN S.orders_bucket
                         ELSE S.queries_bucket, count)
    THEN [granted |-> TRUE, reason |-> ""]
    ELSE [granted |-> FALSE, reason |-> "rate_limit_exceeded"]

\* Throttler.request_tokens: the state it leaves.  The request is appended
\* to S.req: what was asked, what the throttler held, and the response.
RequestTokens(S, token_type, count, priority) ==
    LET resp == TokenResponse(S, token_type, count, priority)
        seen == [token_type |-> token_type, count |-> count,
                 priority |-> priority, paused |-> S.is_auto_paused,
                 available |-> GetAvailableTokens(
                     IF token_type = ORDERS THEN S.orders_bucket
                     ELSE S.queries_bucket),
                 granted |-> resp.granted, reason |-> resp.reason]
        T == [S EXCEPT !.req = Append(@, seen)]
    IN  IF ~resp.granted
        THEN T
        ELSE IF token_type = ORDERS
        THEN [T EXCEPT !.orders_bucket = BucketRequestTokens(@, count)]
        ELSE [T EXCEPT !.queries_bucket = BucketRequestTokens(@, count)]

\* a throttler that lets pairs start while it is paused
CanStartNewPairWhilePaused(S) ==
    GetAvailableTokens(S.orders_bucket) >= min_tokens_free_to_start_new_pair

\* Throttler.can_start_new_pair
CanStartNewPair(S) ==
    /\ ~S.is_auto_paused
    /\ GetAvailableTokens(S.orders_bucket) >= min_tokens_free_to_start_new_pair

\* a monitor that keeps the start of the high stretch over a low sample
MonitorUtilizationNoReset(S) ==
    IF UtilizationAtLeast(S.orders_bucket, auto_pause_threshold_pct)
    THEN LET start == IF S.high_utilization_start_time = None
                      THEN 0 ELSE S.high_utilization_start_time
         IN  [S EXCEPT !.high_utilization_start_time = start,
                       !.is_auto_paused =
                           \/ @
                           \/ start >= auto_pause_sustain_seconds
                                           * TicksPerSec]
    ELSE [S EXCEPT !.is_auto_paused = FALSE]

\* Throttler._monitor_utilization with _trigger_auto_pause
MonitorUtilization(S) ==
    IF UtilizationAtLeast(S.orders_bucket, auto_pause_threshold_pct)
    THEN LET start == IF S.high_utilization_start_time = None
                      THEN 0 ELSE S.high_utilization_start_time
         IN  [S EXCEPT !.high_utilization_start_time = start,
                       !.is_auto_paused =
                           \/ @
                           \/ start >= auto_pause_sustain_seconds
                                           * TicksPerSec]
    ELSE [S EXCEPT !.high_utilization_start_time = None,
                   !.is_auto_paused = FALSE]

\* Throttler.force_auto_pause
ForceAutoPauseOp(S, paused) == [S EXCEPT !.is_auto_paused = paused]

\* the clock: one tick passes for both buckets and the running timers
TickOp(S) ==
    [S EXCEPT !.orders_bucket = Advance(@),
              !.queries_bucket = Advance(@),
              !.high_utilization_start_time =
                  IF @ = None THEN None
                  ELSE Min(auto_pause_sustain_seconds * TicksPerSec, @ + 1),
              !.symbol_cooldowns =
                  [x \in DOMAIN @ |->
                      IF @[x] > 1000 \div TicksPerSec
                      THEN @[x] - 1000 \div TicksPerSec ELSE 0]]

(***************************************************************************)
(* Router                                                                  *)
(***************************************************************************)
\* Router._create_take_leg: leg "A", SELL on the rich venue, MARKET_IOC,
\* quantity min(max_qty, 1), priority 0
CreateTakeLeg(pair_id, max_qty) ==
    [pair_id |-> pair_id, leg |-> "A", quantity |-> Min(max_qty, pilot_qty),
     is_take_leg |-> TRUE, priority |-> URGENT, ioc |-> TRUE]

\* Router._create_hedge_leg: leg "B", BUY on the cheap venue, LIMIT or
\* NXT_MID, quantity min(max_qty, 1), priority 1
CreateHedgeLeg(pair_id, max_qty) ==
    [pair_id |-> pair_id, leg |-> "B", quantity |-> Min(max_qty, pilot_qty),
     is_take_leg |-> FALSE, priority |-> NORMAL, ioc |-> FALSE]

\* Router.create_escalation_intent: same leg and quantity, MARKET_IOC,
\* priority 0
CreateEscalationIntent(original) ==
    [original EXCEPT !.priority = URGENT, !.ioc = TRUE]

\* Router.route_signal: the routing decision for a signal, each leg with
\* the venue and the side that _create_take_leg and _create_hedge_leg give it
RouteSignal(signal, pair_id) ==
    [pair_id |-> pair_id,
     take_leg |->
         [venue |-> IF signal.sell_venue = "KRX" THEN "KRX" ELSE "NXT",
          side |-> "SELL"] @@ CreateTakeLeg(pair_id, signal.max_qty),
     hedge_leg |->
         [venue |-> IF signal.buy_venue = "KRX" THEN "KRX" ELSE "NXT",
          side |-> "BUY"] @@ CreateHedgeLeg(pair_id, signal.max_qty)]

(***************************************************************************)
(* PairManager: state changes of one pair                                  *)
(***************************************************************************)
\* PairTrade: the dataclass defaults
PairTrade(pair_id, symbol, max_qty) ==
    [pair_id |-> pair_id, symbol |-> symbol, state |-> "CANDIDATE",
     take_leg |-> CreateTakeLeg(pair_id, max_qty),
     hedge_leg |-> CreateHedgeLeg(pair_id, max_qty),
     take_order_id |-> NoOrder, hedge_order_id |-> NoOrder,
     escalation_order_id |-> NoOrder,
     take_filled_qty |-> 0, hedge_filled_qty |-> 0,
     hedge_timeout_timer |-> FALSE, cleanup_timer |-> FALSE]

\* PairManager._fail_pair: stop the hedge timer, FAILED, schedule cleanup
FailPair(S, p) ==
    [S EXCEPT !.active_pairs[p].hedge_timeout_timer = FALSE,
              !.active_pairs[p].state = "FAILED",
              !.stats.failed_pairs = @ + 1,
              !.active_pairs[p].cleanup_timer = TRUE]

\* PairManager._complete_pair: stop the hedge timer, PAIRED_DONE, schedule
\* cleanup
CompletePair(S, p) ==
    [S EXCEPT !.active_pairs[p].hedge_timeout_timer = FALSE,
              !.active_pairs[p].state = "PAIRED_DONE",
              !.stats.completed_pairs = @ + 1,
              !.active_pairs[p].cleanup_timer = TRUE]

\* ExecutionGateway._generate_client_order_id: a fresh id for the intent
GenerateClientOrderId(S, intent) ==
    <<intent.pair_id, S.order_seq[intent.pair_id] + 1>>

\* the order number the broker assigns to the order
KiwoomOrderNumber(id) == <<"K", id[1], id[2]>>

\* the exec_id the broker gives the execution that brings order id to a
\* filled quantity of n
ExecId(id, n) == <<"E", id[1], id[2], n>>

RECURSIVE SendOrderIntent(_, _, _)

\* PairManager._escalate_hedge
EscalateHedge(S, p, vok) ==
    LET pt == S.active_pairs[p]
        intent == [CreateEscalationIntent(pt.hedge_leg)
                       EXCEPT !.quantity = pt.take_filled_qty]
        id == GenerateClientOrderId(S, intent)
        T == SendOrderIntent(S, intent, vok)
    IN  IF id # NoOrder
        THEN [T EXCEPT !.active_pairs[p].escalation_order_id = id,
                       !.active_pairs[p].state = "HEDGE_IOC_SENT",
                       !.order_to_pair = Put(@, id, p)]
        ELSE FailPair(T, p)

\* PairManager._send_hedge_leg with _start_hedge_timeout
SendHedgeLeg(S, p, vok) ==
    LET pt == S.active_pairs[p]
        intent == [pt.hedge_leg EXCEPT !.quantity = pt.take_filled_qty]
        S1 == [S EXCEPT !.active_pairs[p].hedge_leg = intent]
        id == GenerateClientOrderId(S1, intent)
        T == SendOrderIntent(S1, intent, vok)
    IN  IF id # NoOrder
        THEN [T EXCEPT !.active_pairs[p].hedge_order_id = id,
                       !.active_pairs[p].state = "HEDGE_POST_PENDING",
                       !.order_to_pair = Put(@, id, p),
                       !.active_pairs[p].hedge_timeout_timer = TRUE]
        ELSE EscalateHedge(T, p, vok)

\* PairManager._handle_trade_fill
HandleTradeFill(S, p, event, vok) ==
    LET pt == S.active_pairs[p] IN
    IF event.order_id = pt.take_order_id
    THEN LET S1 == [S EXCEPT !.active_pairs[p].take_filled_qty =
                                 event.filled_qty]
         IN  IF pt.state = "ENTRY_TAKE_SENT"
             THEN SendHedgeLeg(S1, p, vok)
             ELSE S1
    ELSE IF \/ event.order_id = pt.hedge_order_id
            \/ event.order_id = pt.escalation_order_id
    THEN CompletePair(
             [S EXCEPT !.active_pairs[p].hedge_filled_qty = event.filled_qty],
             p)
    ELSE S

\* a pair manager that fails the pair on every rejection
HandleOrderRejectedFailing(S, p, event, vok) == FailPair(S, p)

\* PairManager._handle_order_rejected
HandleOrderRejected(S, p, event, vok) ==
    LET pt == S.active_pairs[p] IN
    IF event.order_id = pt.take_order_id
    THEN FailPair(S, p)
    ELSE IF pt.take_filled_qty > 0
    THEN EscalateHedge(S, p, vok)
    ELSE FailPair(S, p)

\* PairManager._handle_order_cancelled
HandleOrderCancelled(S, p, event, vok) ==
    IF event.order_id = S.active_pairs[p].hedge_order_id
    THEN EscalateHedge(S, p, vok)
    ELSE S

\* a pair manager that fails the pair on every ack timeout
HandleOrderTimeoutFailing(S, p, event, vok) == FailPair(S, p)

\* PairManager._handle_order_timeout
HandleOrderTimeout(S, p, event, vok) ==
    LET pt == S.active_pairs[p] IN
    IF event.order_id = pt.take_order_id
    THEN FailPair(S, p)
    ELSE IF pt.take_filled_qty > 0
    THEN EscalateHedge(S, p, vok)
    ELSE S

\* PairManager._on_execution_event
OnExecutionEvent(S, event, vok) ==
    IF event.order_id \notin DOMAIN S.order_to_pair
    THEN S
    ELSE LET p == S.order_to_pair[event.order_id] IN
         IF p \notin DOMAIN S.active_pairs
         THEN S
         ELSE CASE event.event_type = "ORDER_REJECTED" ->
                       HandleOrderRejected(S, p, event, vok)
                [] event.event_type = "TRADE_FILL" ->
                       HandleTradeFill(S, p, event, vok)
                [] event.event_type = "ORDER_CANCELLED" ->
                       HandleOrderCancelled(S, p, event, vok)
                [] event.event_type = "ORDER_TIMEOUT" ->
                       HandleOrderTimeout(S, p, event, vok)
                [] OTHER -> S

(***************************************************************************)
(* ExecutionGateway                                                        *)
(***************************************************************************)
ExecutionEvent(event_type, order_id, filled_qty) ==
    [event_type |-> event_type, order_id |-> order_id,
     filled_qty |-> filled_qty]

\* ExecutionGateway._emit_execution_event: the signal is delivered
\* synchronously to PairManager._on_execution_event
EmitExecutionEvent(S, event_type, order_id, filled_qty, vok) ==
    OnExecutionEvent(
        [S EXCEPT !.ev = Append(@, ExecutionEvent(event_type, order_id,
                                                  filled_qty))],
        ExecutionEvent(event_type, order_id, filled_qty), vok)

\* ExecutionGateway._create_order_record
OrderRecord(intent, client_order_id) ==
    [pair_id |-> intent.pair_id, leg |-> intent.leg,
     quantity |-> intent.quantity, client_order_id |-> client_order_id,
     kiwoom_order_number |-> NoOrder, state |-> "PENDING_SEND",
     filled_quantity |-> 0, remaining_quantity |-> intent.quantity,
     fills |-> <<>>,
     tr_timeout_timer |-> FALSE, chejan_timeout_timer |-> FALSE,
     cleanup_timer |-> FALSE]

\* what the broker holds for an order it has received
VenueOrder(intent) ==
    [leg |-> intent.leg, quantity |-> intent.quantity, filled |-> 0,
     live |-> TRUE,
     tr |-> "pending", accepted |-> FALSE, cancel_requested |-> FALSE,
     ioc |-> intent.ioc, priority |-> intent.priority,
     last_fill |-> NoOrder, redelivered |-> 0]

\* ExecutionGateway._cleanup_order with delay_ms = 0
CleanupOrder(S, id) ==
    IF id \notin DOMAIN S.active_orders
    THEN S
    ELSE [S EXCEPT !.kiwoom_to_client_id =
                       Del(@, S.active_orders[id].kiwoom_order_number),
                   !.active_orders = Del(@, id)]

\* ExecutionGateway.send_order_intent with _send_to_kiwoom and
\* _start_tr_timeout; vok is the broker's synchronous result.  It returns
\* the client order id, GenerateClientOrderId of the state it is called in.
SendOrderIntent(S, intent, vok) ==
    LET id == GenerateClientOrderId(S, intent)
        S1 == [S EXCEPT !.order_seq[intent.pair_id] = @ + 1]
        priority == IF intent.is_take_leg \/ intent.priority = 0
                    THEN URGENT ELSE NORMAL
        resp == TokenResponse(S1, ORDERS, 1, priority)
        S2 == RequestTokens(S1, ORDERS, 1, priority)
    IN  IF ~resp.granted
        THEN EmitExecutionEvent(S2, "ORDER_REJECTED", id, 0, vok)
        ELSE IF vok
        THEN [S2 EXCEPT !.active_orders =
                            Put(@, id, [OrderRecord(intent, id) EXCEPT
                                            !.state = "SENT",
                                            !.tr_timeout_timer = TRUE]),
                        !.venue = Put(@, id, VenueOrder(intent))]
        ELSE EmitExecutionEvent(
                 [S2 EXCEPT !.active_orders =
                                Put(@, id, [OrderRecord(intent, id) EXCEPT
                                                !.state = "REJECTED"])],
                 "ORDER_REJECTED", id, 0, vok)

\* ExecutionGateway._handle_tr_timeout
HandleTrTimeout(S, id, vok) ==
    IF id \notin DOMAIN S.active_orders
    THEN S
    ELSE IF S.active_orders[id].state # "SENT"
    THEN [S EXCEPT !.active_orders[id].tr_timeout_timer = FALSE]
    ELSE CleanupOrder(
             EmitExecutionEvent(
                 [S EXCEPT !.active_orders[id].state = "TIMEOUT",
                           !.active_orders[id].tr_timeout_timer = FALSE],
                 "ORDER_TIMEOUT", id, 0, vok),
             id)

\* a gateway that leaves the ack timer running when the TR answer arrives
OnTrDataKeepingTimer(S, id, order_number, vok) ==
    IF id \notin DOMAIN S.active_orders
    THEN S
    ELSE IF order_number # NoOrder
    THEN EmitExecutionEvent(
             [S EXCEPT !.active_orders[id].kiwoom_order_number = order_number,
                       !.active_orders[id].state = "ACCEPTED",
                       !.active_orders[id].chejan_timeout_timer = TRUE,
                       !.kiwoom_to_client_id = Put(@, order_number, id)],
             "ORDER_ACK", id, 0, vok)
    ELSE CleanupOrder(
             EmitExecutionEvent(
                 [S EXCEPT !.active_orders[id].state = "REJECTED"],
                 "ORDER_REJECTED", id, 0, vok),
             id)

\* ExecutionGateway._on_tr_data with _start_chejan_timeout; order_number is
\* NoOrder when the response carries an empty order number
OnTrData(S, id, order_number, vok) ==
    IF id \notin DOMAIN S.active_orders
    THEN S
    ELSE IF order_number # NoOrder
    THEN EmitExecutionEvent(
             [S EXCEPT !.active_orders[id].tr_timeout_timer = FALSE,
                       !.active_orders[id].kiwoom_order_number = order_number,
                       !.active_orders[id].state = "ACCEPTED",
                       !.active_orders[id].chejan_timeout_timer = TRUE,
                       !.kiwoom_to_client_id = Put(@, order_number, id)],
             "ORDER_ACK", id, 0, vok)
    ELSE CleanupOrder(
             EmitExecutionEvent(
                 [S EXCEPT !.active_orders[id].tr_timeout_timer = FALSE,
                           !.active_orders[id].state = "REJECTED"],
                 "ORDER_REJECTED", id, 0, vok),
             id)

\* ExecutionGateway._handle_chejan_timeout
HandleChejanTimeout(S, id, vok) ==
    IF id \notin DOMAIN S.active_orders
    THEN S
    ELSE EmitExecutionEvent(
             [S EXCEPT !.active_orders[id].chejan_timeout_timer = FALSE],
             "ORDER_STUCK", id, 0, vok)

\* ExecutionGateway._handle_order_accepted
HandleOrderAccepted(S, id, vok) ==
    IF S.active_orders[id].state = "ACCEPTED"
    THEN S
    ELSE EmitExecutionEvent(
             [S EXCEPT !.active_orders[id].state = "ACCEPTED"],
             "ORDER_ACCEPTED", id, 0, vok)

\* ExecutionGateway._handle_fill
HandleFill(S, id, fill_qty, remaining_qty, exec_id, vok) ==
    LET filled == S.active_orders[id].filled_quantity + fill_qty
        S1 == [S EXCEPT !.active_orders[id].filled_quantity = filled,
                        !.active_orders[id].remaining_quantity = remaining_qty,
                        !.active_orders[id].fills =
                            Append(@, [exec_id |-> exec_id,
                                       fill_qty |-> fill_qty]),
                        !.active_orders[id].state =
                            IF remaining_qty > 0 THEN "PARTIALLY_FILLED"
                            ELSE "FILLED"]
        S2 == EmitExecutionEvent(
                  S1, IF remaining_qty > 0 THEN "TRADE_PARTIAL"
                      ELSE "TRADE_FILL", id, filled, vok)
    IN  IF remaining_qty = 0 /\ id \in DOMAIN S2.active_orders
        THEN [S2 EXCEPT !.active_orders[id].cleanup_timer = TRUE]
        ELSE S2

\* ExecutionGateway._handle_order_cancelled
GatewayHandleOrderCancelled(S, id, vok) ==
    CleanupOrder(
        EmitExecutionEvent(
            [S EXCEPT !.active_orders[id].state = "CANCELLED"],
            "ORDER_CANCELLED", id, 0, vok),
        id)

\* ExecutionGateway._on_chejan_data for gubun "0"
OnChejanData(S, order_number, order_status, fill_qty, remaining_qty, exec_id, vok) ==
    IF order_number \notin DOMAIN S.kiwoom_to_client_id
    THEN S
    ELSE LET id == S.kiwoom_to_client_id[order_number] IN
         IF id \notin DOMAIN S.active_orders
         THEN S
         ELSE LET S1 == [S EXCEPT
                            !.active_orders[id].chejan_timeout_timer = FALSE]
              IN  IF order_status = "accepted"
                  THEN HandleOrderAccepted(S1, id, vok)
                  ELSE IF fill_qty > 0
                  THEN HandleFill(S1, id, fill_qty, remaining_qty, exec_id,
                                  vok)
                  ELSE IF order_status = "confirmed"
                  THEN GatewayHandleOrderCancelled(S1, id, vok)
                  ELSE S1

\* ExecutionGateway._on_message for a message with a rejection keyword
OnMessage(S, id, vok) ==
    IF id \notin DOMAIN S.active_orders
    THEN S
    ELSE CleanupOrder(
             EmitExecutionEvent(
                 [S EXCEPT !.active_orders[id].state = "REJECTED"],
                 "ORDER_REJECTED", id, 0, vok),
             id)

\* ExecutionGateway.cancel_order: the value it returns
CancelOrderResult(S, id, vok) ==
    /\ id \in DOMAIN S.active_orders
    /\ S.active_orders[id].kiwoom_order_number # NoOrder
    /\ TokenResponse(S, ORDERS, 1, URGENT).granted
    /\ vok

\* ExecutionGateway.cancel_order: the state it leaves
CancelOrder(S, id, vok) ==
    IF \/ id \notin DOMAIN S.active_orders
       \/ S.active_orders[id].kiwoom_order_number = NoOrder
    THEN S
    ELSE LET T == RequestTokens(S, ORDERS, 1, URGENT) IN
         IF CancelOrderResult(S, id, vok) /\ id \in DOMAIN S.venue
         THEN [T EXCEPT !.venue[id].cancel_requested = TRUE]
         ELSE T

(***************************************************************************)
(* PairManager: signals, timers, operator commands                         *)
(***************************************************************************)
\* a session that still opens positions while it is CLOSING
CanOpenNewPositionsWhileClosing(S) == S.trading_state \in {"ARMED", "CLOSING"}

\* SessionStateManager.can_open_new_positions
CanOpenNewPositions(S) == S.trading_state = "ARMED"

\* an admission check without the cap on concurrent symbols
CheckAdmissionWithoutSymbolCap(S, symbol) ==
    /\ CanOpenNewPositions(S)
    /\ (IF symbol \in DOMAIN S.symbol_pairs
        THEN Len(S.symbol_pairs[symbol]) ELSE 0)
           < max_outstanding_pairs_per_symbol
    /\ CanStartNewPair(S)

\* PairManager._check_admission
CheckAdmission(S, symbol) ==
    /\ CanOpenNewPositions(S)
    /\ Cardinality(DOMAIN S.symbol_pairs) < S.max_concurrent_symbols
    /\ (IF symbol \in DOMAIN S.symbol_pairs
        THEN Len(S.symbol_pairs[symbol]) ELSE 0)
           < max_outstanding_pairs_per_symbol
    /\ CanStartNewPair(S)

\* PairManager._start_pair_trade
StartPairTrade(S, p, vok) ==
    LET intent == S.active_pairs[p].take_leg
        id == GenerateClientOrderId(S, intent)
        T == SendOrderIntent(S, intent, vok)
    IN  IF id # NoOrder
        THEN [T EXCEPT !.active_pairs[p].take_order_id = id,
                       !.active_pairs[p].state = "ENTRY_TAKE_SENT",
                       !.order_to_pair = Put(@, id, p)]
        ELSE FailPair(T, p)

\* PairManager.handle_signal with Router.route_signal: the state it leaves
\* (its return value is CheckAdmission of the state it is called in)
HandleSignal(S, symbol, max_qty, vok) ==
    IF ~CheckAdmission(S, symbol)
    THEN S
    ELSE LET p == S.next_pair_id
             S1 == [S EXCEPT
                       !.next_pair_id = @ + 1,
                       !.order_seq = Put(@, p, 0),
                       !.active_pairs =
                           Put(@, p, PairTrade(p, symbol, max_qty)),
                       !.symbol_pairs =
                           Put(@, symbol,
                               Append(IF symbol \in DOMAIN @
                                      THEN @[symbol] ELSE <<>>, p))]
         IN  [StartPairTrade(S1, p, vok) EXCEPT !.stats.total_pairs = @ + 1]

\* PairManager._handle_hedge_timeout
HandleHedgeTimeout(S, p, vok) ==
    IF p \notin DOMAIN S.active_pairs
    THEN S
    ELSE LET S1 == [S EXCEPT !.active_pairs[p].hedge_timeout_timer = FALSE]
             pt == S.active_pairs[p]
         IN  IF pt.state # "HEDGE_POST_PENDING"
             THEN S1
             ELSE IF pt.hedge_order_id = NoOrder
             THEN S1
             ELSE LET T == CancelOrder(S1, pt.hedge_order_id, vok) IN
                  IF CancelOrderResult(S1, pt.hedge_order_id, vok)
                  THEN [T EXCEPT !.active_pairs[p].state = "CANCEL_POST_SENT"]
                  ELSE T

\* list.remove(x): the list without the first occurrence of x
RECURSIVE ListRemove(_, _)
ListRemove(list, x) ==
    IF list = <<>> THEN <<>>
    ELSE IF Head(list) = x THEN Tail(list)
    ELSE <<Head(list)>> \o ListRemove(Tail(list), x)

\* PairManager._cleanup_pair
CleanupPair(S, p) ==
    IF p \notin DOMAIN S.active_pairs
    THEN S
    ELSE LET pt == S.active_pairs[p]
             rest == IF pt.symbol \in DOMAIN S.symbol_pairs
                     THEN ListRemove(S.symbol_pairs[pt.symbol], p)
                     ELSE <<>>
             ids == {pt.take_order_id, pt.hedge_order_id,
                     pt.escalation_order_id}
         IN  [S EXCEPT
                 !.symbol_pairs =
                     IF pt.symbol \notin DOMAIN @ THEN @
                     ELSE IF rest = <<>> THEN Del(@, pt.symbol)
                     ELSE Put(@, pt.symbol, rest),
                 !.order_to_pair = [o \in (DOMAIN @) \ ids |-> @[o]],
                 !.active_pairs = Del(@, p)]

\* PairManager.force_close_all_pairs: the loop over list(active_pairs.keys()),
\* which holds the pair ids in the order the pairs were created
RECURSIVE ForceCloseFrom(_, _, _)
ForceCloseFrom(S, p, vok) ==
    IF p >= S.next_pair_id
    THEN S
    ELSE IF p \notin DOMAIN S.active_pairs
    THEN ForceCloseFrom(S, p + 1, vok)
    ELSE LET hedge == S.active_pairs[p].hedge_order_id
             S1 == IF hedge # NoOrder THEN CancelOrder(S, hedge, vok) ELSE S
         IN  ForceCloseFrom(FailPair(S1, p), p + 1, vok)

\* a forced close that fails every pair and cancels nothing
ForceCloseAllPairsNoCancel(S, vok) ==
    [S EXCEPT !.active_pairs =
        [p \in DOMAIN @ |-> [@[p] EXCEPT !.hedge_timeout_timer = FALSE,
                                         !.state = "FAILED",
                                         !.cleanup_timer = TRUE]]]

ForceCloseAllPairs(S, vok) == ForceCloseFrom(S, 1, vok)

(***************************************************************************)
(* SessionStateManager                                                     *)
(***************************************************************************)
\* SessionStateManager._evaluate_trading_state; should_be_trading is the
\* value of _should_be_trading()
EvaluateTradingStateOp(S, should_be_trading) ==
    IF should_be_trading
    THEN IF S.trading_state = "DISARMED"
         THEN [S EXCEPT !.trading_state = "ARMED"]
         ELSE S
    ELSE IF S.trading_state \in {"TRADING", "ARMED"}
         THEN [S EXCEPT !.trading_state = "CLOSING"]
         ELSE S

\* SessionStateManager._in_overlap_window
InOverlapWindow(S) ==
    overlap_window_start <= S.clock /\ S.clock <= overlap_window_end

\* SessionStateManager._should_be_trading
ShouldBeTrading(S) ==
    IF ~arm_only_in_overlap THEN TRUE
    ELSE IF ~InOverlapWindow(S) THEN FALSE
    ELSE IF ~S.krx_trading_hours THEN FALSE
    ELSE IF use_fid_215_signals
    THEN S.nxt_session_state = MAIN_OPEN
    ELSE nxt_start <= S.clock /\ S.clock <= nxt_end

\* SessionStateManager._check_trading_state at the time S.clock
CheckTradingState(S) ==
    LET hours == krx_start <= S.clock /\ S.clock <= krx_end
        S1 == [S EXCEPT !.krx_trading_hours = hours]
    IN  IF S.krx_trading_hours # hours
        THEN EvaluateTradingStateOp(S1, ShouldBeTrading(S1))
        ELSE S1

\* SessionStateManager.update_nxt_session; a value that is no session code
\* raises ValueError and changes nothing
UpdateNxtSessionOp(S, fid_215_value) ==
    IF fid_215_value \notin NXTSessionState
    THEN S
    ELSE LET S1 == [S EXCEPT !.nxt_session_state = fid_215_value]
         IN  EvaluateTradingStateOp(S1, ShouldBeTrading(S1))

\* the times of day the model follows second by second: those within
\* ClockMargin seconds of a time the session check compares the clock with
Instants ==
    UNION {(t - ClockMargin)..(t + ClockMargin) :
              t \in {krx_start, krx_end, nxt_start, nxt_end,
                     overlap_window_start, overlap_window_end}}

\* the time of the next session check: one second later, or, through a
\* stretch of the day in which no comparison of the check changes, the next
\* time of Instants (of the next day after the last one)
NextClock(c) ==
    IF c + 1 \in Instants THEN c + 1
    ELSE LET later == {t \in Instants : t > c} IN
         IF later # {}
         THEN CHOOSE t \in later : \A u \in later : t <= u
         ELSE CHOOSE t \in Instants : \A u \in Instants : t <= u

\* SessionStateManager.manual_arm
ManualArmOp(S) ==
    IF S.trading_state = "DISARMED"
    THEN [S EXCEPT !.trading_state = "ARMED"]
    ELSE S

\* SessionStateManager.force_disarm
ForceDisarmOp(S) == [S EXCEPT !.trading_state = "DISARMED"]

(***************************************************************************)
(* MarketDataManager                                                       *)
(***************************************************************************)
\* QuoteSnapshot: the dataclass defaults (the times of the last updates and
\* both_venues_touched, which nothing reads or sets here, are left out)
QuoteSnapshot(symbol) ==
    [symbol |-> symbol,
     krx_bid |-> 0, krx_ask |-> 0, krx_bid_size |-> 0, krx_ask_size |-> 0,
     nxt_bid |-> 0, nxt_ask |-> 0, nxt_bid_size |-> 0, nxt_ask_size |-> 0,
     is_dirty |-> FALSE]

\* a code is <<base, suffix>>: the base code and "_NX" for NXT, "" for KRX
IsNxtCode(code) == code[2] = "_NX"

\* MarketDataManager._parse_int: the sign and the commas are removed, an
\* empty value is 0.  A broker value is held as the signed number it spells.
ParseInt(value) == IF value < 0 THEN -value ELSE value

\* the four fields of one venue in a snapshot
VenueFields(quote, is_nxt) ==
    IF is_nxt
    THEN [bid |-> quote.nxt_bid, ask |-> quote.nxt_ask,
          bid_size |-> quote.nxt_bid_size, ask_size |-> quote.nxt_ask_size]
    ELSE [bid |-> quote.krx_bid, ask |-> quote.krx_ask,
          bid_size |-> quote.krx_bid_size, ask_size |-> quote.krx_ask_size]

\* the fields _on_real_data stores: the parsed value if it is positive, the
\* old value otherwise
MergedFields(old, payload) ==
    LET Keep(new, prev) == IF ParseInt(new) > 0 THEN ParseInt(new) ELSE prev
    IN  [bid |-> Keep(payload.bid, old.bid),
         ask |-> Keep(payload.ask, old.ask),
         bid_size |-> Keep(payload.bid_size, old.bid_size),
         ask_size |-> Keep(payload.ask_size, old.ask_size)]

\* the snapshot with the four fields of one venue replaced
WithVenueFields(quote, is_nxt, f) ==
    IF is_nxt
    THEN [quote EXCEPT !.nxt_bid = f.bid, !.nxt_ask = f.ask,
                       !.nxt_bid_size = f.bid_size,
                       !.nxt_ask_size = f.ask_size]
    ELSE [quote EXCEPT !.krx_bid = f.bid, !.krx_ask = f.ask,
                       !.krx_bid_size = f.bid_size,
                       !.krx_ask_size = f.ask_size]

\* the quote_updated(symbol, venue) signal
QuoteUpdated(symbol, quote_venue) ==
    [event_type |-> "quote_updated", order_id |-> NoOrder, filled_qty |-> 0,
     symbol |-> symbol, venue |-> quote_venue]

\* a market data manager that flags every update as a change
OnRealDataAlwaysDirty(S, code, payload) ==
    LET base_code == code[1] IN
    IF base_code \notin DOMAIN S.quotes
    THEN S
    ELSE LET is_nxt == IsNxtCode(code)
             new == MergedFields(VenueFields(S.quotes[base_code], is_nxt),
                                 payload)
         IN  [S EXCEPT !.quotes[base_code] =
                           [WithVenueFields(@, is_nxt, new)
                               EXCEPT !.is_dirty = TRUE],
                       !.dirty_symbols = @ \cup {base_code},
                       !.ev = Append(@, QuoteUpdated(base_code,
                                 IF is_nxt THEN "NXT" ELSE "KRX"))]

\* MarketDataManager._on_real_data; payload holds the values of FIDs 51, 41,
\* 71 and 61 as bid, ask, bid_size and ask_size
OnRealData(S, code, payload) ==
    LET base_code == code[1] IN
    IF base_code \notin DOMAIN S.quotes
    THEN S
    ELSE LET is_nxt == IsNxtCode(code)
             old == VenueFields(S.quotes[base_code], is_nxt)
             new == MergedFields(old, payload)
             changed == new # old
             S1 == [S EXCEPT !.quotes[base_code] =
                                 WithVenueFields(@, is_nxt, new)]
         IN  IF changed
             THEN [S1 EXCEPT !.quotes[base_code].is_dirty = TRUE,
                             !.dirty_symbols = @ \cup {base_code},
                             !.ev = Append(@, QuoteUpdated(base_code,
                                       IF is_nxt THEN "NXT" ELSE "KRX"))]
             ELSE S1

\* a market data manager whose take leaves the dirty flags set
GetDirtySymbolsKeepingFlags(S) == [S EXCEPT !.dirty_symbols = {}]

\* MarketDataManager.get_dirty_symbols: the state it leaves (it returns
\* dirty_symbols of the state it is called in)
GetDirtySymbols(S) ==
    [S EXCEPT !.dirty_symbols = {},
              !.quotes = [x \in DOMAIN @ |->
                             IF x \in S.dirty_symbols
                             THEN [@[x] EXCEPT !.is_dirty = FALSE]
                             ELSE @[x]]]

\* MarketDataManager._create_screen_shards: the loop from the i-th symbol on,
\* with current_screen_idx and symbols_in_current_screen
RECURSIVE ShardLoop(_, _, _, _)
ShardLoop(S, i, current_screen_idx, symbols_in_current_screen) ==
    IF i > Len(S.symbols)
    THEN S
    ELSE LET symbol == S.symbols[i]
             screen_no == ToString(S.available_screens[current_screen_idx + 1])
             shard == IF screen_no \in DOMAIN S.screen_shards
                      THEN S.screen_shards[screen_no] ELSE <<>>
             S1 == [S EXCEPT !.screen_shards =
                                 Put(@, screen_no, Append(shard, symbol)),
                             !.symbol_to_screen = Put(@, symbol, screen_no)]
         IN  IF symbols_in_current_screen + 1 >= max_symbols_per_screen
             THEN ShardLoop(S1, i + 1,
                            (current_screen_idx + 1)
                                % Len(S.available_screens), 0)
             ELSE ShardLoop(S1, i + 1, current_screen_idx,
                            symbols_in_current_screen + 1)

\* MarketDataManager._create_screen_shards
CreateScreenShards(S) ==
    ShardLoop([S EXCEPT !.screen_shards = EmptyMap,
                        !.symbol_to_screen = EmptyMap], 1, 0, 0)

\* MarketDataManager.load_symbol_universe
LoadSymbolUniverseOp(S, universe) ==
    CreateScreenShards(
        [S EXCEPT !.symbols = universe,
                  !.quotes = [x \in {universe[i] : i \in 1..Len(universe)}
                                 |-> QuoteSnapshot(x)]])

(***************************************************************************)
(* SpreadEngine                                                            *)
(***************************************************************************)
\* SessionStateManager.can_trade
CanTrade(S) == S.trading_state \in {"ARMED", "TRADING"}

\* SpreadEngine.__init__: the fees of the two venues
krx_fees_bps == krx_broker_bps
nxt_fees_bps == nxt_broker_bps + nxt_regulatory_bps

\* no signal: the None that the calculations return
NoSignal == [symbol |-> ""]

\* SpreadEngine._get_venue_fees_bps
GetVenueFeesBps(quote_venue) ==
    IF quote_venue = "KRX" THEN krx_fees_bps
    ELSE IF quote_venue = "NXT" THEN nxt_fees_bps
    ELSE 0

\* a validity check that accepts a venue whose ask is not above its bid
IsQuoteValidCrossedBook(quote) ==
    /\ quote.krx_bid > 0 /\ quote.krx_ask > 0
    /\ quote.nxt_bid > 0 /\ quote.nxt_ask > 0
    /\ Min(quote.krx_bid_size, quote.krx_ask_size)
           >= also_require_min_visible_qty
    /\ Min(quote.nxt_bid_size, quote.nxt_ask_size)
           >= also_require_min_visible_qty

\* SpreadEngine._is_quote_valid
IsQuoteValid(quote) ==
    /\ quote.krx_bid > 0 /\ quote.krx_ask > 0
    /\ quote.krx_ask > quote.krx_bid
    /\ quote.nxt_bid > 0 /\ quote.nxt_ask > 0
    /\ quote.nxt_ask > quote.nxt_bid
    /\ Min(quote.krx_bid_size, quote.krx_ask_size)
           >= also_require_min_visible_qty
    /\ Min(quote.nxt_bid_size, quote.nxt_ask_size)
           >= also_require_min_visible_qty

\* SpreadEngine._calculate_direction_edge: an ArbitrageSignal or NoSignal.
\* total_fees_krw and net_edge_krw are in units of 1/MoneyScale KRW; the
\* edge in basis points and the timestamp are left out.
CalculateDirectionEdge(symbol, buy_venue, buy_price, buy_size, sell_venue, sell_price, sell_size) ==
    IF sell_price <= buy_price
    THEN NoSignal
    ELSE LET gross_edge_krw == sell_price - buy_price
             buy_fees_krw == buy_price * GetVenueFeesBps(buy_venue)
             sell_fees_krw == sell_price * GetVenueFeesBps(sell_venue)
             total_fees_krw == buy_fees_krw + sell_fees_krw
         IN  [symbol |-> symbol,
              buy_venue |-> buy_venue, sell_venue |-> sell_venue,
              buy_price |-> buy_price, sell_price |-> sell_price,
              max_qty |-> Min(Min(buy_size, sell_size), pilot_cap),
              edge_krw |-> gross_edge_krw,
              total_fees_krw |-> total_fees_krw,
              net_edge_krw |-> gross_edge_krw * MoneyScale - total_fees_krw]

\* SpreadEngine._get_tick_size; twice the average price is compared with
\* twice each limit
GetTickSize(S, symbol) ==
    IF symbol \notin DOMAIN S.quotes
    THEN 1
    ELSE LET quote == S.quotes[symbol]
             twice_avg_price ==
                 IF quote.krx_ask > 0 /\ quote.krx_bid > 0
                 THEN quote.krx_ask + quote.krx_bid
                 ELSE 2 * 50000
         IN  IF twice_avg_price < 2 * 2000 THEN 1
             ELSE IF twice_avg_price < 2 * 5000 THEN 5
             ELSE IF twice_avg_price < 2 * 20000 THEN 10
             ELSE IF twice_avg_price < 2 * 50000 THEN 50
             ELSE IF twice_avg_price < 2 * 200000 THEN 100
             ELSE IF twice_avg_price < 2 * 500000 THEN 500
             ELSE 1000

\* a spread engine that compares the gross edge with the threshold
MeetsEdgeThresholdOnGross(S, symbol, signal) ==
    signal.edge_krw * MoneyScale
        >= GetTickSize(S, symbol) * min_net_ticks_after_fees * MoneyScale

\* SpreadEngine._meets_edge_threshold
MeetsEdgeThreshold(S, symbol, signal) ==
    signal.net_edge_krw
        >= GetTickSize(S, symbol) * min_net_ticks_after_fees * MoneyScale

\* SpreadEngine._calculate_edge: the signal, or NoSignal
CalculateEdge(S, symbol, quote) ==
    LET krx_nxt_edge ==
            CalculateDirectionEdge(symbol, "KRX", quote.krx_ask,
                                   quote.krx_ask_size, "NXT", quote.nxt_bid,
                                   quote.nxt_bid_size)
        nxt_krx_edge ==
            CalculateDirectionEdge(symbol, "NXT", quote.nxt_ask,
                                   quote.nxt_ask_size, "KRX", quote.krx_bid,
                                   quote.krx_bid_size)
        best_signal ==
            IF krx_nxt_edge # NoSignal /\ nxt_krx_edge # NoSignal
            THEN IF krx_nxt_edge.net_edge_krw > nxt_krx_edge.net_edge_krw
                 THEN krx_nxt_edge ELSE nxt_krx_edge
            ELSE IF krx_nxt_edge # NoSignal THEN krx_nxt_edge
            ELSE nxt_krx_edge
    IN  IF best_signal # NoSignal /\ MeetsEdgeThreshold(S, symbol, best_signal)
        THEN best_signal
        ELSE NoSignal

\* SpreadEngine._enter_cooldown
EnterCooldown(S, symbol) ==
    [S EXCEPT !.symbol_cooldowns = Put(@, symbol, cooldown_ms)]

\* a filter that lets the symbols in cooldown through
EligibleInCooldown(S, list) == list

\* SpreadEngine._filter_cooldown_symbols: the symbols of the list that are
\* not in cooldown
Eligible(S, list) ==
    SelectSeq(list, LAMBDA x : x \notin DOMAIN S.symbol_cooldowns
                                  \/ S.symbol_cooldowns[x] <= 0)

\* SpreadEngine._filter_cooldown_symbols: the state it leaves, the expired
\* cooldowns of the symbols of the list removed
FilterCooldownSymbols(S, list) ==
    [S EXCEPT !.symbol_cooldowns =
                  [x \in {y \in DOMAIN @ :
                             \/ y \notin {list[i] : i \in 1..Len(list)}
                             \/ @[y] > 0} |-> @[x]]]

\* the signal_generated(signal) signal
SignalGenerated(signal) ==
    [event_type |-> "signal_generated", order_id |-> NoOrder,
     filled_qty |-> 0, signal |-> signal]

\* SpreadEngine._process_batch: the loop over the eligible symbols from the
\* i-th on; signal_generated is delivered synchronously to
\* PairManager.handle_signal
RECURSIVE ProcessEligible(_, _, _, _)
ProcessEligible(S, eligible_symbols, i, vok) ==
    IF i > Len(eligible_symbols)
    THEN S
    ELSE LET symbol == eligible_symbols[i]
             signal == IF symbol \in DOMAIN S.quotes
                       THEN CalculateEdge(S, symbol, S.quotes[symbol])
                       ELSE NoSignal
             S1 == IF symbol \notin DOMAIN S.quotes
                      \/ ~IsQuoteValid(S.quotes[symbol])
                   THEN S
                   ELSE IF signal # NoSignal
                   THEN HandleSignal(
                            [S EXCEPT !.ev = Append(@, SignalGenerated(signal))],
                            symbol, signal.max_qty, vok)
                   ELSE EnterCooldown(S, symbol)
         IN  ProcessEligible(S1, eligible_symbols, i + 1, vok)

\* SpreadEngine._process_batch; dirty_order is the order in which the set of
\* dirty symbols is iterated
ProcessBatch(S, dirty_order, vok) ==
    IF ~CanTrade(S)
    THEN S
    ELSE LET S1 == GetDirtySymbols(S)
             eligible_symbols == Eligible(S1, dirty_order)
             S2 == FilterCooldownSymbols(S1, dirty_order)
         IN  ProcessEligible(S2, eligible_symbols, 1, vok)

\* time passes: every cooldown has ms milliseconds less to run
Elapse(S, ms) ==
    [S EXCEPT !.symbol_cooldowns =
                  [x \in DOMAIN @ |-> IF @[x] > ms THEN @[x] - ms ELSE 0]]

(***************************************************************************)
(* Initial state: the objects as their constructors leave them             *)
(***************************************************************************)
NoOp == [op |-> "init", arg |-> <<>>, result |-> FALSE,
         req |-> <<>>, ev |-> <<>>]

EmptyLog == [a \in 0..(TicksPerSec - 1) |-> 0]

\* the symbols of data/ticker_universe.xlsx, which main() loads
SymbolList == <<"005930", "000660">>

\* the objects built at the time start from a configuration whose
\* execution.max_concurrent_symbols is cap and whose market data screens
\* are screens, after main() has loaded the symbol universe
InitUniverse(cap, start, screens) ==
    /\ clock = start
    /\ krx_trading_hours = TRUE
    /\ nxt_session_state = NoSession
    /\ orders_bucket = TokenBucket(orders_bucket_per_sec)
    /\ queries_bucket = TokenBucket(queries_bucket_per_sec)
    /\ is_auto_paused = FALSE
    /\ high_utilization_start_time = None
    /\ monitor_timer = 0
    /\ trading_state = "DISARMED"
    /\ max_concurrent_symbols = cap
    /\ active_pairs = EmptyMap
    /\ symbol_pairs = EmptyMap
    /\ order_to_pair = EmptyMap
    /\ next_pair_id = 1
    /\ stats = [total_pairs |-> 0, completed_pairs |-> 0, failed_pairs |-> 0]
    /\ active_orders = EmptyMap
    /\ kiwoom_to_client_id = EmptyMap
    /\ order_seq = EmptyMap
    /\ venue = EmptyMap
    /\ available_screens = screens
    /\ symbols = SymbolList
    /\ quotes = [x \in Symbols |-> QuoteSnapshot(x)]
    /\ dirty_symbols = {}
    /\ LET loaded == CreateScreenShards(
                         [symbols |-> SymbolList, available_screens |-> screens,
                          screen_shards |-> EmptyMap,
                          symbol_to_screen |-> EmptyMap])
       IN  /\ screen_shards = loaded.screen_shards
           /\ symbol_to_screen = loaded.symbol_to_screen
    /\ symbol_cooldowns = EmptyMap
    /\ last = NoOp
    /\ grant_log = [orders |-> EmptyLog, queries |-> EmptyLog]

\* the default market data screens
InitAt(cap, start) == InitUniverse(cap, start, marketdata_screens)

\* the program started before the market opens
InitWith(cap) == InitAt(cap, krx_start - ClockMargin)

\* the default configuration
Init == InitWith(default_max_concurrent_symbols)

\* the default configuration, the program started at any time
InitAnyTime ==
    \E start \in Instants : InitAt(default_max_concurrent_symbols, start)

\* any configuration with a cap of at most the default
InitAnyCap == \E cap \in 1..default_max_concurrent_symbols : InitWith(cap)

\* any configuration with at least one and at most MaxScreens of the default
\* market data screens
InitAnyScreens ==
    \E k \in 1..MaxScreens :
        InitUniverse(default_max_concurrent_symbols, krx_start - ClockMargin,
                     SubSeq(marketdata_screens, 1, k))

(***************************************************************************)
(* Actions: one handler applied to the current state                       *)
(***************************************************************************)
WithinBounds(T) ==
    /\ T.next_pair_id <= MaxPairs + 1
    /\ T.stats.failed_pairs <= MaxFailedPairs
    /\ \A p \in DOMAIN T.order_seq : T.order_seq[p] <= MaxOrdersPerPair

\* the log with the requests of req that were granted from the bucket added
\* at age 0
LogGrants(log, req, token_type) ==
    [log EXCEPT ![0] = @ + Cardinality({i \in 1..Len(req) :
                                           /\ req[i].token_type = token_type
                                           /\ req[i].granted})]

\* the log one tick later
AgeLog(log) ==
    [a \in 0..(TicksPerSec - 1) |-> IF a = 0 THEN 0 ELSE log[a - 1]]

Apply(op, arg, result, T) ==
    \E t \in {T} :
        /\ WithinBounds(t)
        /\ Commit(t)
        /\ last' = [op |-> op, arg |-> arg, result |-> result,
                    req |-> t.req, ev |-> t.ev]
        /\ grant_log' =
               [orders |-> LogGrants(grant_log.orders, t.req, ORDERS),
                queries |-> LogGrants(grant_log.queries, t.req, QUERIES)]
        /\ UNCHANGED monitor_timer

\* SpreadEngine.signal_generated -> PairManager.handle_signal
Signal(symbol, max_qty, vok) ==
    Apply("handle_signal", <<symbol, max_qty>>, CheckAdmission(Cur, symbol),
          HandleSignal(Cur, symbol, max_qty, vok))

\* a caller asks the throttler for tokens: Throttler.request_tokens
Request(token_type, count, priority) ==
    Apply("request_tokens", <<token_type, count, priority>>,
          TokenResponse(Cur, token_type, count, priority).granted,
          RequestTokens(Cur, token_type, count, priority))

\* the broker answers a received order with its order number (TR data)
VenueTrAck(id, vok) ==
    /\ id \in DOMAIN venue
    /\ venue[id].tr = "pending"
    /\ Apply("on_tr_data", <<id>>, TRUE,
             OnTrData([Cur EXCEPT !.venue[id].tr = "done"], id,
                      KiwoomOrderNumber(id), vok))

\* the broker answers a received order with an empty order number
VenueTrReject(id, vok) ==
    /\ id \in DOMAIN venue
    /\ venue[id].tr = "pending"
    /\ venue[id].live
    /\ venue[id].filled = 0
    /\ Apply("on_tr_data", <<id>>, FALSE,
             OnTrData([Cur EXCEPT !.venue[id].tr = "done",
                                  !.venue[id].live = FALSE], id,
                      NoOrder, vok))

\* the broker rejects an order with a message (OnReceiveMsg)
VenueMessageReject(id, vok) ==
    /\ id \in DOMAIN venue
    /\ venue[id].live
    /\ venue[id].filled = 0
    /\ Apply("on_message", <<id>>, FALSE,
             OnMessage([Cur EXCEPT !.venue[id].live = FALSE], id, vok))

\* the broker reports an order as accepted (chejan, status accepted)
VenueAccepted(id, vok) ==
    /\ id \in DOMAIN venue
    /\ venue[id].live
    /\ ~venue[id].accepted
    /\ Apply("on_chejan_data", <<id, "accepted">>, TRUE,
             OnChejanData([Cur EXCEPT !.venue[id].accepted = TRUE],
                          KiwoomOrderNumber(id), "accepted", 0,
                          venue[id].quantity - venue[id].filled, NoOrder,
                          vok))

\* the broker fills qty shares of a live order and reports it (chejan)
VenueFill(id, qty, vok) ==
    /\ id \in DOMAIN venue
    /\ venue[id].live
    /\ qty \in 1..(venue[id].quantity - venue[id].filled)
    /\ LET remaining == venue[id].quantity - venue[id].filled - qty
           report == [fill_qty |-> qty, remaining_qty |-> remaining,
                      exec_id |-> ExecId(id, venue[id].filled + qty)]
       IN  Apply("on_chejan_data", <<id, "filled", report.exec_id>>, TRUE,
                 OnChejanData([Cur EXCEPT !.venue[id].filled = @ + qty,
                                          !.venue[id].live = remaining > 0,
                                          !.venue[id].last_fill = report],
                              KiwoomOrderNumber(id), "filled", qty, remaining,
                              report.exec_id, vok))

\* the broker delivers the last fill report of an order once more, with the
\* same exec_id
VenueRedeliver(id, vok) ==
    /\ id \in DOMAIN venue
    /\ venue[id].last_fill # NoOrder
    /\ venue[id].redelivered < MaxRedeliveries
    /\ LET report == venue[id].last_fill IN
       Apply("on_chejan_data", <<id, "filled", report.exec_id>>, FALSE,
             OnChejanData([Cur EXCEPT !.venue[id].redelivered = @ + 1],
                          KiwoomOrderNumber(id), "filled", report.fill_qty,
                          report.remaining_qty, report.exec_id, vok))

\* the broker confirms the cancel of a live order: one that was asked to be
\* cancelled, or the unfilled rest of an IOC order
VenueCancel(id, vok) ==
    /\ id \in DOMAIN venue
    /\ venue[id].live
    /\ venue[id].cancel_requested \/ venue[id].ioc
    /\ Apply("on_chejan_data", <<id, "confirmed">>, FALSE,
             OnChejanData([Cur EXCEPT !.venue[id].live = FALSE],
                          KiwoomOrderNumber(id), "confirmed", 0,
                          venue[id].quantity - venue[id].filled, NoOrder,
                          vok))

\* OrderRecord.tr_timeout_timer fires
TrTimeout(id, vok) ==
    /\ id \in DOMAIN active_orders
    /\ active_orders[id].tr_timeout_timer
    /\ Apply("tr_timeout", <<id>>, TRUE, HandleTrTimeout(Cur, id, vok))

\* OrderRecord.chejan_timeout_timer fires
ChejanTimeout(id, vok) ==
    /\ id \in DOMAIN active_orders
    /\ active_orders[id].chejan_timeout_timer
    /\ Apply("chejan_timeout", <<id>>, TRUE, HandleChejanTimeout(Cur, id, vok))

\* the timer of ExecutionGateway._cleanup_order(delay_ms > 0) fires
OrderCleanupTimer(id) ==
    /\ id \in DOMAIN active_orders
    /\ active_orders[id].cleanup_timer
    /\ Apply("cleanup_order", <<id>>, TRUE, CleanupOrder(Cur, id))

\* PairTrade.hedge_timeout_timer fires
HedgeTimeout(p, vok) ==
    /\ p \in DOMAIN active_pairs
    /\ active_pairs[p].hedge_timeout_timer
    /\ Apply("hedge_timeout", <<p>>,
             /\ active_pairs[p].state = "HEDGE_POST_PENDING"
             /\ CancelOrderResult(Cur, active_pairs[p].hedge_order_id, vok),
             HandleHedgeTimeout(Cur, p, vok))

\* the timer of PairManager._schedule_cleanup fires
PairCleanupTimer(p) ==
    /\ p \in DOMAIN active_pairs
    /\ active_pairs[p].cleanup_timer
    /\ Apply("cleanup_pair", <<p>>, TRUE, CleanupPair(Cur, p))

\* the operator calls PairManager.force_close_all_pairs
ForceClose(vok) ==
    /\ active_pairs # EmptyMap
    /\ Apply("force_close_all_pairs", <<>>, TRUE, ForceCloseAllPairs(Cur, vok))

\* SessionStateManager.manual_arm
ManualArm ==
    Apply("manual_arm", <<>>, TRUE, ManualArmOp(Cur))

\* SessionStateManager.force_disarm
ForceDisarm ==
    Apply("force_disarm", <<>>, TRUE, ForceDisarmOp(Cur))

\* SessionStateManager._evaluate_trading_state, from update_nxt_session or
\* _check_trading_state
EvaluateTradingState(should_be_trading) ==
    Apply("evaluate_trading_state", <<should_be_trading>>, TRUE,
          EvaluateTradingStateOp(Cur, should_be_trading))

\* SessionStateManager.state_check_timer fires, a second after it last did:
\* _check_trading_state
SessionTick ==
    Apply("check_trading_state", <<>>, TRUE,
          CheckTradingState([Elapse(Cur, 1000) EXCEPT !.clock = NextClock(@)]))

\* market data carries a value of FID 215: update_nxt_session
UpdateNxtSession(fid_215_value) ==
    Apply("update_nxt_session", <<fid_215_value>>, TRUE,
          UpdateNxtSessionOp(Cur, fid_215_value))

\* the codes of the real-time data: the symbols of the universe and one
\* symbol outside it, on both venues
Codes == (Symbols \cup {"035720"}) \X {"", "_NX"}

\* the values of one real-time message; a value the broker sends with a
\* minus sign is a negative number
Payload(bid, ask, bid_size, ask_size) ==
    [bid |-> bid, ask |-> ask, bid_size |-> bid_size, ask_size |-> ask_size]

\* messages that carry all four values
FullPayloads ==
    {Payload(1998, 1999, 1, 12), Payload(-2000, 2005, 2, 1),
     Payload(2005, -2010, 11, 12)}

\* the messages the spread engine is followed with: complete ones and one
\* with a bid alone
Payloads == FullPayloads \cup {Payload(2010, 0, 0, 0)}

\* the messages the sweep is followed with: every bid and ask out of four
\* price levels, so that the four prices of a snapshot stand in every order
SweepPayloads ==
    {Payload(bid, ask, 1, 1) : bid, ask \in {1998, 1999, 2005, 2010}}

\* the messages the quote book is followed with: complete ones, one with a
\* bid alone and one without values
QuotePayloads ==
    {Payload(-2000, 2005, 2, 1), Payload(2005, -2010, 11, 12),
     Payload(2010, 0, 0, 0), Payload(0, 0, 0, 0)}

\* the orders in which a set can be iterated
Orderings(set) ==
    {f \in [1..Cardinality(set) -> set] :
        \A i, j \in 1..Cardinality(set) : f[i] = f[j] => i = j}

\* a universe of n symbols, each named by its number
Universe(n) == [i \in 1..n |-> i]

\* the broker delivers real-time data for a code:
\* MarketDataManager._on_real_data
RealData(code, payload) ==
    Apply("on_real_data", <<code, payload>>, code[1] \in DOMAIN quotes,
          OnRealData(Cur, code, payload))

\* a caller takes the dirty set: MarketDataManager.get_dirty_symbols
TakeDirtySet ==
    Apply("get_dirty_symbols", <<>>, dirty_symbols, GetDirtySymbols(Cur))

\* SpreadEngine.batch_timer fires, batch_interval_ms after it last did:
\* _process_batch.  The result holds whether the sweep ran, the dirty set it
\* took and the symbols it found eligible.
SweepTick(dirty_order, vok) ==
    /\ dirty_order \in Orderings(dirty_symbols)
    /\ LET S == Elapse(Cur, batch_interval_ms) IN
       Apply("process_batch", <<dirty_order>>,
             [ran |-> CanTrade(S),
              dirty |-> IF CanTrade(S) THEN S.dirty_symbols ELSE {},
              eligible |-> IF CanTrade(S) THEN Eligible(S, dirty_order)
                           ELSE <<>>],
             ProcessBatch(S, dirty_order, vok))

\* the operator loads a symbol universe:
\* MarketDataManager.load_symbol_universe
LoadSymbolUniverse(universe) ==
    Apply("load_symbol_universe", <<Len(universe)>>, TRUE,
          LoadSymbolUniverseOp(Cur, universe))

\* Throttler.force_auto_pause
ForceAutoPause(paused) ==
    Apply("force_auto_pause", <<paused>>, TRUE, ForceAutoPauseOp(Cur, paused))

\* one clock tick passes; the 1000 ms monitor timer is due after TicksPerSec
\* ticks and fires before the next one
Tick ==
    /\ monitor_timer < TicksPerSec
    /\ Commit(TickOp(Cur))
    /\ monitor_timer' = monitor_timer + 1
    /\ grant_log' = [orders |-> AgeLog(grant_log.orders),
                     queries |-> AgeLog(grant_log.queries)]
    /\ last' = [NoOp EXCEPT !.op = "tick"]

\* Throttler.monitor_timer fires: _monitor_utilization
Monitor ==
    /\ monitor_timer = TicksPerSec
    /\ Commit(MonitorUtilization(Cur))
    /\ monitor_timer' = 0
    /\ last' = [NoOp EXCEPT !.op = "monitor_utilization"]
    /\ UNCHANGED grant_log

(***************************************************************************)
(* Specifications                                                          *)
(***************************************************************************)
OrderIds == (1..MaxPairs) \X (1..MaxOrdersPerPair)

\* the whole program: every handler, any interleaving.  The specifications
\* after it each follow a part of the program, in a state space that can
\* be searched to its end.
Next ==
    \/ \E symbol \in Symbols, max_qty \in 1..MaxQty, vok \in BOOLEAN :
           Signal(symbol, max_qty, vok)
    \/ \E token_type \in {ORDERS, QUERIES}, count \in 1..MaxCount,
          priority \in {URGENT, NORMAL} :
           Request(token_type, count, priority)
    \/ \E id \in OrderIds, vok \in BOOLEAN : VenueTrAck(id, vok)
    \/ \E id \in OrderIds, vok \in BOOLEAN : VenueTrReject(id, vok)
    \/ \E id \in OrderIds, vok \in BOOLEAN : VenueMessageReject(id, vok)
    \/ \E id \in OrderIds, vok \in BOOLEAN : VenueAccepted(id, vok)
    \/ \E id \in OrderIds, qty \in 1..MaxQty, vok \in BOOLEAN :
           VenueFill(id, qty, vok)
    \/ \E id \in OrderIds, vok \in BOOLEAN : VenueRedeliver(id, vok)
    \/ \E id \in OrderIds, vok \in BOOLEAN : VenueCancel(id, vok)
    \/ \E id \in OrderIds, vok \in BOOLEAN : TrTimeout(id, vok)
    \/ \E id \in OrderIds, vok \in BOOLEAN : ChejanTimeout(id, vok)
    \/ \E id \in OrderIds : OrderCleanupTimer(id)
    \/ \E p \in 1..MaxPairs, vok \in BOOLEAN : HedgeTimeout(p, vok)
    \/ \E p \in 1..MaxPairs : PairCleanupTimer(p)
    \/ \E vok \in BOOLEAN : ForceClose(vok)
    \/ ManualArm
    \/ ForceDisarm
    \/ \E should_be_trading \in BOOLEAN : EvaluateTradingState(should_be_trading)
    \/ SessionTick
    \/ \E fid_215_value \in NXTSessionState \cup {"X"} :
           UpdateNxtSession(fid_215_value)
    \/ \E paused \in BOOLEAN : ForceAutoPause(paused)
    \/ \E code \in Codes, payload \in Payloads \cup QuotePayloads :
           RealData(code, payload)
    \/ TakeDirtySet
    \/ \E dirty_order \in Orderings(dirty_symbols), vok \in BOOLEAN :
           SweepTick(dirty_order, vok)
    \/ \E n \in 0..MaxUniverse : LoadSymbolUniverse(Universe(n))
    \/ Tick
    \/ Monitor

Spec == Init /\ [][Next]_vars

\* one session, armed by the operator, following every order event of
\* MaxTracedPairs pairs
NextPair ==
    \/ ManualArm
    \/ \E symbol \in Symbols, max_qty \in 1..MaxQty, vok \in BOOLEAN :
           /\ next_pair_id <= MaxTracedPairs
           /\ Signal(symbol, max_qty, vok)
    \/ \E id \in OrderIds, vok \in BOOLEAN : VenueTrAck(id, vok)
    \/ \E id \in OrderIds, vok \in BOOLEAN : VenueTrReject(id, vok)
    \/ \E id \in OrderIds, vok \in BOOLEAN : VenueMessageReject(id, vok)
    \/ \E id \in OrderIds, qty \in 1..MaxQty, vok \in BOOLEAN :
           VenueFill(id, qty, vok)
    \/ \E id \in OrderIds, vok \in BOOLEAN : VenueCancel(id, vok)
    \/ \E id \in OrderIds, vok \in BOOLEAN : TrTimeout(id, vok)
    \/ \E id \in OrderIds : OrderCleanupTimer(id)
    \/ \E p \in 1..MaxPairs, vok \in BOOLEAN : HedgeTimeout(p, vok)
    \/ \E p \in 1..MaxPairs : PairCleanupTimer(p)
    \/ \E paused \in BOOLEAN : ForceAutoPause(paused)
    \/ Tick
    \/ Monitor

SpecPair == Init /\ [][NextPair]_vars

\* one armed session following the first pair from its signal to the end:
\* the broker acknowledges, fills and confirms cancels when it likes, the
\* ack timers and the hedge deadline run
NextDeadline ==
    \/ ManualArm
    \/ \E max_qty \in 1..MaxQty, vok \in BOOLEAN :
           /\ next_pair_id = 1
           /\ Signal(SymbolList[1], max_qty, vok)
    \/ \E id \in OrderIds, vok \in BOOLEAN : VenueTrAck(id, vok)
    \/ \E id \in OrderIds, qty \in 1..MaxQty, vok \in BOOLEAN :
           VenueFill(id, qty, vok)
    \/ \E id \in OrderIds, vok \in BOOLEAN : VenueCancel(id, vok)
    \/ \E id \in OrderIds, vok \in BOOLEAN : TrTimeout(id, vok)
    \/ \E p \in 1..MaxPairs, vok \in BOOLEAN : HedgeTimeout(p, vok)
    \/ Tick
    \/ Monitor

SpecDeadline == Init /\ [][NextDeadline]_vars

\* the timers the program keeps do fire: the clock advances, the monitor
\* timer repeats every second, and a running hedge deadline or ack timer
\* fires unless it is stopped; the broker answers when it likes, or never
SpecDeadlineFair ==
    /\ SpecDeadline
    /\ WF_vars(Tick)
    /\ WF_vars(Monitor)
    /\ WF_vars(\E p \in 1..MaxPairs, vok \in BOOLEAN : HedgeTimeout(p, vok))
    /\ WF_vars(\E id \in OrderIds, vok \in BOOLEAN : TrTimeout(id, vok))

\* the timers fire and the broker answers every order it has received: it
\* acknowledges it, and it fills it or confirms its cancel; an order that
\* waits for an answer waits until it gets it, so that fairness on the
\* answers as a whole is fairness on the answer to each order
SpecDeadlineLive ==
    /\ SpecDeadlineFair
    /\ WF_vars(\E id \in OrderIds, vok \in BOOLEAN : VenueTrAck(id, vok))
    /\ WF_vars(\E id \in OrderIds, vok \in BOOLEAN :
                   \/ \E qty \in 1..MaxQty : VenueFill(id, qty, vok)
                   \/ VenueCancel(id, vok))

\* the first symbol from its first signal to the removal of its pair and a
\* later signal for it: the broker answers when it likes, the ack timers
\* and the hedge deadline run, and the grace timer of a finished pair may
\* fire
NextGrace ==
    \/ ManualArm
    \/ \E max_qty \in 1..MaxQty, vok \in BOOLEAN :
           /\ next_pair_id <= MaxPairs
           /\ Signal(SymbolList[1], max_qty, vok)
    \/ \E id \in OrderIds, vok \in BOOLEAN : VenueTrAck(id, vok)
    \/ \E id \in OrderIds, qty \in 1..MaxQty, vok \in BOOLEAN :
           VenueFill(id, qty, vok)
    \/ \E id \in OrderIds, vok \in BOOLEAN : VenueCancel(id, vok)
    \/ \E id \in OrderIds, vok \in BOOLEAN : TrTimeout(id, vok)
    \/ \E p \in 1..MaxPairs, vok \in BOOLEAN : HedgeTimeout(p, vok)
    \/ \E p \in 1..MaxPairs : PairCleanupTimer(p)
    \/ Tick
    \/ Monitor

\* the timers the program keeps a reference to do fire.  The grace timer is
\* not one of them: _schedule_cleanup creates the QTimer in a local variable
\* and returns, nothing else refers to it, and a QTimer without a parent
\* lives only as long as its Python object, so that no step of the program
\* makes it fire
SpecGraceFair ==
    /\ Init /\ [][NextGrace]_vars
    /\ WF_vars(Tick)
    /\ WF_vars(Monitor)
    /\ WF_vars(\E p \in 1..MaxPairs, vok \in BOOLEAN : HedgeTimeout(p, vok))
    /\ WF_vars(\E id \in OrderIds, vok \in BOOLEAN : TrTimeout(id, vok))

\* one session, armed by the operator, in which the operator may force all
\* pairs closed at any time; the broker acknowledges, fills and cancels
NextClose ==
    \/ ManualArm
    \/ \E symbol \in Symbols, max_qty \in 1..MaxQty, vok \in BOOLEAN :
           /\ next_pair_id <= MaxTracedPairs
           /\ Signal(symbol, max_qty, vok)
    \/ \E id \in OrderIds, vok \in BOOLEAN : VenueTrAck(id, vok)
    \/ \E id \in OrderIds, qty \in 1..MaxQty, vok \in BOOLEAN :
           VenueFill(id, qty, vok)
    \/ \E id \in OrderIds, vok \in BOOLEAN : VenueCancel(id, vok)
    \/ \E p \in 1..MaxPairs, vok \in BOOLEAN : HedgeTimeout(p, vok)
    \/ \E p \in 1..MaxPairs : PairCleanupTimer(p)
    \/ \E vok \in BOOLEAN : ForceClose(vok)
    \/ Tick
    \/ Monitor

SpecClose == Init /\ [][NextClose]_vars

\* signals, session changes, pauses, forced closes and cleanups, with a
\* broker that rejects orders; the cap on concurrent symbols is any
\* configured value
NextAdmission ==
    \/ \E symbol \in Symbols, max_qty \in 1..MaxQty, vok \in BOOLEAN :
           Signal(symbol, max_qty, vok)
    \/ \E id \in OrderIds, vok \in BOOLEAN : VenueMessageReject(id, vok)
    \/ \E p \in 1..MaxPairs : PairCleanupTimer(p)
    \/ \E vok \in BOOLEAN : ForceClose(vok)
    \/ ManualArm
    \/ ForceDisarm
    \/ \E should_be_trading \in BOOLEAN : EvaluateTradingState(should_be_trading)
    \/ \E paused \in BOOLEAN : ForceAutoPause(paused)
    \/ Tick
    \/ Monitor

SpecAdmission == InitAnyCap /\ [][NextAdmission]_vars

\* the throttler alone, asked for order tokens by any caller at any time
NextThrottle ==
    \/ \E count \in 1..MaxCount, priority \in {URGENT, NORMAL} :
           Request(ORDERS, count, priority)
    \/ \E paused \in BOOLEAN : ForceAutoPause(paused)
    \/ Tick
    \/ Monitor

SpecThrottle == Init /\ [][NextThrottle]_vars

\* the gateway at one instant: the operator arms the session, pairs are
\* admitted and their orders sent, and the broker answers each order with TR
\* data, messages and execution reports, in any order and repeated, while
\* the gateway's timers fire
NextGateway ==
    \/ ManualArm
    \/ \E symbol \in Symbols, max_qty \in 1..MaxQty, vok \in BOOLEAN :
           Signal(symbol, max_qty, vok)
    \/ \E id \in OrderIds, vok \in BOOLEAN : VenueTrAck(id, vok)
    \/ \E id \in OrderIds, vok \in BOOLEAN : VenueTrReject(id, vok)
    \/ \E id \in OrderIds, vok \in BOOLEAN : VenueMessageReject(id, vok)
    \/ \E id \in OrderIds, vok \in BOOLEAN : VenueAccepted(id, vok)
    \/ \E id \in OrderIds, qty \in 1..MaxQty, vok \in BOOLEAN :
           VenueFill(id, qty, vok)
    \/ \E id \in OrderIds, vok \in BOOLEAN : VenueRedeliver(id, vok)
    \/ \E id \in OrderIds, vok \in BOOLEAN : VenueCancel(id, vok)
    \/ \E id \in OrderIds, vok \in BOOLEAN : TrTimeout(id, vok)
    \/ \E id \in OrderIds, vok \in BOOLEAN : ChejanTimeout(id, vok)
    \/ \E id \in OrderIds : OrderCleanupTimer(id)

SpecGateway == Init /\ [][NextGateway]_vars

\* the timers the gateway keeps in the order record, the ack timer and the
\* execution-report timer, fire unless they are stopped.  The timer of the
\* delayed cleanup is a local QTimer of _cleanup_order that nothing refers
\* to once the method has returned, so that no step of the program makes it
\* fire
SpecGatewayFair ==
    /\ SpecGateway
    /\ WF_vars(\E id \in OrderIds, vok \in BOOLEAN : TrTimeout(id, vok))
    /\ WF_vars(\E id \in OrderIds, vok \in BOOLEAN : ChejanTimeout(id, vok))

\* the session through the day: the check every second, the session codes
\* of market data, the operator arming, and pairs that are admitted, rejected
\* by the broker and swept
NextSession ==
    \/ SessionTick
    \/ \E fid_215_value \in NXTSessionState \cup {"X"} :
           UpdateNxtSession(fid_215_value)
    \/ ManualArm
    \/ \E symbol \in Symbols, max_qty \in 1..MaxQty, vok \in BOOLEAN :
           /\ next_pair_id <= MaxTracedPairs
           /\ Signal(symbol, max_qty, vok)
    \/ \E id \in OrderIds, vok \in BOOLEAN : VenueMessageReject(id, vok)
    \/ \E p \in 1..MaxPairs : PairCleanupTimer(p)

SpecSession == InitAnyTime /\ [][NextSession]_vars

\* state_check_timer is a repeating timer the session manager keeps: the
\* check runs every second, for ever
SpecSessionFair == SpecSession /\ WF_vars(SessionTick)

\* a session inside the overlap window that only the session codes of the
\* market data arm: a pair is admitted and followed through every event,
\* while the code changes; signals after the first pair are followed once
\* the code is no longer R
NextMidPair ==
    \/ \E fid_215_value \in NXTSessionState : UpdateNxtSession(fid_215_value)
    \/ \E symbol \in Symbols, max_qty \in 1..MaxQty, vok \in BOOLEAN :
           /\ next_pair_id <= MaxTracedPairs \/ nxt_session_state # MAIN_OPEN
           /\ Signal(symbol, max_qty, vok)
    \/ \E id \in OrderIds, vok \in BOOLEAN : VenueTrAck(id, vok)
    \/ \E id \in OrderIds, qty \in 1..MaxQty, vok \in BOOLEAN :
           VenueFill(id, qty, vok)
    \/ \E id \in OrderIds, vok \in BOOLEAN : VenueCancel(id, vok)
    \/ \E p \in 1..MaxPairs, vok \in BOOLEAN : HedgeTimeout(p, vok)
    \/ Tick
    \/ Monitor

SpecMidPair ==
    /\ InitAt(default_max_concurrent_symbols, overlap_window_start)
    /\ [][NextMidPair]_vars

\* the quote book alone: real-time data for any code, and takes of the dirty
\* set
NextQuotes ==
    \/ \E code \in Codes, payload \in QuotePayloads : RealData(code, payload)
    \/ TakeDirtySet

SpecQuotes == Init /\ [][NextQuotes]_vars

\* the spread engine: the operator arms the session, real-time data arrives
\* for one symbol of the universe on both venues and the sweep runs every
\* batch_interval_ms; its signals go to the pair manager
NextSpread ==
    \/ ManualArm
    \/ \E code \in {SymbolList[1]} \X {"", "_NX"}, payload \in Payloads :
           RealData(code, payload)
    \/ \E dirty_order \in Orderings(dirty_symbols), vok \in BOOLEAN :
           SweepTick(dirty_order, vok)

SpecSpread == Init /\ [][NextSpread]_vars

\* the sweep over every snapshot: the operator arms and disarms the session,
\* real-time data brings the quotes of one symbol on both venues to every
\* bid and ask, and the sweep runs every batch_interval_ms
NextSweep ==
    \/ ManualArm
    \/ ForceDisarm
    \/ \E code \in {SymbolList[1]} \X {"", "_NX"}, payload \in SweepPayloads :
           RealData(code, payload)
    \/ \E dirty_order \in Orderings(dirty_symbols), vok \in BOOLEAN :
           SweepTick(dirty_order, vok)

SpecSweep == Init /\ [][NextSweep]_vars

\* symbol universes of any size are loaded, with any configured pool of
\* screens
NextShards ==
    \E n \in 0..MaxUniverse : LoadSymbolUniverse(Universe(n))

SpecShards == InitAnyScreens /\ [][NextShards]_vars

TypeOK ==
    /\ orders_bucket.tokens \in 0..(orders_bucket_per_sec * TicksPerSec)
    /\ queries_bucket.tokens \in 0..(queries_bucket_per_sec * TicksPerSec)
    /\ trading_state \in {"DISARMED", "ARMED", "TRADING", "CLOSING"}
    /\ next_pair_id \in 1..(MaxPairs + 1)
    /\ monitor_timer \in 0..TicksPerSec
    /\ clock \in Instants
    /\ krx_trading_hours \in BOOLEAN
    /\ nxt_session_state \in NXTSessionState \cup {NoSession}

(***************************************************************************)
(* Properties                                                              *)
(***************************************************************************)
\* the pairs the pair manager tracks
Tracked == DOMAIN active_pairs

\* the orders of pair p the broker has received on leg
VenueOrdersOf(p, leg) ==
    {id \in DOMAIN venue : id[1] = p /\ venue[id].leg = leg}

\* the quantity the broker has filled over a set of orders
RECURSIVE VenueFilled(_)
VenueFilled(ids) ==
    IF ids = {} THEN 0
    ELSE LET id == CHOOSE x \in ids : TRUE
         IN  venue[id].filled + VenueFilled(ids \ {id})

\* the number of requests a log holds
RECURSIVE LogTotal(_, _)
LogTotal(log, a) ==
    IF a < 0 THEN 0 ELSE log[a] + LogTotal(log, a - 1)

\* the events of the last operation that refuse order id
Refusals(id) ==
    {i \in 1..Len(last.ev) :
        /\ last.ev[i].order_id = id
        /\ last.ev[i].event_type \in {"ORDER_REJECTED", "ORDER_TIMEOUT"}}

\* C1: whenever a pair is in PAIRED_DONE, the quantity filled on its take
\* order equals the quantity filled on its hedge-side orders (the hedge
\* order and every escalation order), so that its net position is zero.
C1_PairedDoneIsFlat ==
    \A p \in Tracked :
        active_pairs[p].state = "PAIRED_DONE" =>
            VenueFilled(VenueOrdersOf(p, "A"))
                = VenueFilled(VenueOrdersOf(p, "B"))

\* C2: once the state of a pair is PAIRED_DONE or FAILED, no operation
\* changes it: the pair keeps that state until its record is swept.
C2_TerminalStateIsFinal ==
    [][\A p \in Tracked :
           active_pairs[p].state \in {"PAIRED_DONE", "FAILED"} =>
               \/ p \notin DOMAIN active_pairs'
               \/ active_pairs'[p].state = active_pairs[p].state]_vars

\* C3: a pair never waits in ENTRY_TAKE_SENT or HEDGE_POST_PENDING on an
\* order that was not submitted to the venue: an order the gateway refused
\* synchronously has failed the pair (take leg) or escalated it (hedge leg).
C3_NoWaitOnRefusedOrder ==
    \A p \in Tracked :
        /\ active_pairs[p].state = "ENTRY_TAKE_SENT" =>
               active_pairs[p].take_order_id \in DOMAIN venue
        /\ active_pairs[p].state = "HEDGE_POST_PENDING" =>
               active_pairs[p].hedge_order_id \in DOMAIN venue

\* C4: in every window of one second, at most orders_bucket_per_sec order
\* token requests and at most queries_bucket_per_sec query token requests
\* are granted.  The grants of the last TicksPerSec tick instants lie
\* within less than one second of each other.
C4_GrantsPerSecond ==
    /\ LogTotal(grant_log.orders, TicksPerSec - 1) <= orders_bucket_per_sec
    /\ LogTotal(grant_log.queries, TicksPerSec - 1) <= queries_bucket_per_sec

\* C5: while the throttler is auto-paused, every NORMAL order-token request
\* is denied with reason auto_paused and no NORMAL order reaches the venue;
\* an URGENT request is never denied because of the pause and is granted
\* whenever the bucket holds the tokens it asks for.
C5_AutoPause ==
    [][/\ \A i \in 1..Len(last'.req) :
              LET r == last'.req[i] IN
              (r.token_type = ORDERS /\ r.paused) =>
                  IF r.priority = NORMAL
                  THEN ~r.granted /\ r.reason = "auto_paused"
                  ELSE /\ r.reason # "auto_paused"
                       /\ r.available >= r.count => r.granted
       /\ is_auto_paused =>
              \A id \in (DOMAIN venue') \ (DOMAIN venue) :
                  venue'[id].priority = URGENT]_vars

\* C5 happens: a hedge leg asked for its NORMAL token while the throttler
\* was paused, and the take leg before it had been sent.
C5_Witness ==
    /\ is_auto_paused
    /\ \E i \in 1..Len(last.req) :
           /\ last.req[i].priority = NORMAL
           /\ last.req[i].paused
           /\ last.req[i].available > reserved_order_tokens
    /\ \E id \in DOMAIN venue : venue[id].priority = URGENT

\* C6: when the throttler is not paused, a NORMAL order-token request for n
\* tokens is granted exactly when available - n >= reserve_order_tokens,
\* and an URGENT one exactly when available >= n.
C6_Reservation ==
    \A i \in 1..Len(last.req) :
        LET r == last.req[i] IN
        (r.token_type = ORDERS /\ ~r.paused) =>
            IF r.priority = NORMAL
            THEN r.granted <=> (r.available - r.count >= reserve_order_tokens)
            ELSE r.granted <=> (r.available >= r.count)

\* the symbols that have a tracked pair
ActiveSymbols == {active_pairs[p].symbol : p \in Tracked}

\* the tracked pairs of a symbol
PairsOf(symbol) == {p \in Tracked : active_pairs[p].symbol = symbol}

\* C7: at most max_concurrent_symbols symbols have a tracked pair, and no
\* symbol has more than max_outstanding_pairs_per_symbol tracked pairs.
C7_Caps ==
    /\ Cardinality(ActiveSymbols) <= max_concurrent_symbols
    /\ \A symbol \in Symbols :
           Cardinality(PairsOf(symbol)) <= max_outstanding_pairs_per_symbol

\* C7 happens: the cap on symbols is reached and a signal for a symbol
\* without a pair was turned down, with the session armed and the throttler
\* ready to start a pair.
C7_Witness ==
    /\ last.op = "handle_signal"
    /\ ~last.result
    /\ last.arg[1] \notin ActiveSymbols
    /\ Cardinality(ActiveSymbols) = max_concurrent_symbols
    /\ trading_state = "ARMED"
    /\ ~is_auto_paused
    /\ GetAvailableTokens(orders_bucket) >= min_tokens_free_to_start_new_pair

\* C8: handle_signal returns true exactly when the session is ARMED, fewer
\* than max_concurrent_symbols symbols have a pair, the symbol has fewer
\* than max_outstanding_pairs_per_symbol pairs, the throttler is not paused
\* and holds at least min_tokens_free_to_start_new_pair order tokens.  Then
\* it creates a pair and hands its take leg to the gateway, which submits
\* it to the broker; otherwise it changes nothing.
C8_Admission ==
    [][last'.op = "handle_signal" =>
          LET symbol == last'.arg[1]
              p == next_pair_id
              admit == /\ trading_state = "ARMED"
                       /\ Cardinality(ActiveSymbols) < max_concurrent_symbols
                       /\ Cardinality(PairsOf(symbol))
                              < max_outstanding_pairs_per_symbol
                       /\ ~is_auto_paused
                       /\ GetAvailableTokens(orders_bucket)
                              >= min_tokens_free_to_start_new_pair
          IN  /\ last'.result = admit
              /\ admit =>
                     /\ DOMAIN active_pairs' = Tracked \cup {p}
                     /\ p \notin Tracked
                     /\ active_pairs'[p].symbol = symbol
                     /\ active_pairs'[p].take_order_id # NoOrder
                     /\ Len(last'.req) = 1
                     /\ last'.req[1].priority = URGENT
                     /\ last'.req[1].granted
                     /\ \/ active_pairs'[p].take_order_id \in DOMAIN venue'
                        \/ active_orders'[active_pairs'[p].take_order_id].state
                               = "REJECTED"
              /\ ~admit =>
                     UNCHANGED <<orders_bucket, queries_bucket,
                                 is_auto_paused, high_utilization_start_time,
                                 monitor_timer, trading_state,
                                 max_concurrent_symbols, active_pairs,
                                 symbol_pairs, order_to_pair, next_pair_id,
                                 active_orders, kiwoom_to_client_id, order_seq,
                                 venue, grant_log>>]_vars

\* C8 happens: a signal was turned down while a pair was tracked, and the
\* only condition that failed was the throttler's.
C8_Witness ==
    /\ last.op = "handle_signal"
    /\ ~last.result
    /\ trading_state = "ARMED"
    /\ Tracked # {}
    /\ Cardinality(ActiveSymbols) < max_concurrent_symbols
    /\ last.arg[1] \notin ActiveSymbols

\* C9: when the take leg of a pair is rejected or times out waiting for its
\* ack before any fill, the pair is FAILED and has sent no order but the
\* take leg.
C9_RefusedTakeFails ==
    \A p \in Tracked :
        (/\ Refusals(active_pairs[p].take_order_id) # {}
         /\ active_pairs[p].take_filled_qty = 0) =>
            /\ active_pairs[p].state = "FAILED"
            /\ VenueOrdersOf(p, "B") = {}
            /\ active_pairs[p].hedge_order_id = NoOrder
            /\ active_pairs[p].escalation_order_id = NoOrder

\* the broker's rejection of order id was the last operation, and the
\* gateway reported it
RejectedByBroker(id) ==
    /\ last.op \in {"on_tr_data", "on_message"}
    /\ ~last.result
    /\ last.arg = <<id>>
    /\ Refusals(id) # {}

Emitted(l, id, types) ==
    {i \in 1..Len(l.ev) :
        l.ev[i].order_id = id /\ l.ev[i].event_type \in types}

\* the orders the broker receives in this step
NewVenueOrders == (DOMAIN venue') \ (DOMAIN venue)

\* C11: when the hedge deadline fires for a pair in HEDGE_POST_PENDING whose
\* hedge order is working at the venue, a cancel of that order is submitted
\* and the pair enters CANCEL_POST_SENT; when ORDER_CANCELLED for the hedge
\* order of a pair in CANCEL_POST_SENT is received, an URGENT MARKET_IOC
\* escalation order is submitted and the pair enters HEDGE_IOC_SENT; a
\* deadline firing in any other state changes nothing but the timer itself.
C11_HedgeDeadline ==
    [][\A p \in Tracked :
           LET h == active_pairs[p].hedge_order_id IN
           /\ (last'.op = "hedge_timeout" /\ last'.arg = <<p>>) =>
                  IF active_pairs[p].state = "HEDGE_POST_PENDING"
                  THEN (h \in DOMAIN venue /\ venue[h].live) =>
                           /\ venue'[h].cancel_requested
                           /\ active_pairs'[p].state = "CANCEL_POST_SENT"
                  ELSE /\ active_pairs' =
                              [active_pairs EXCEPT
                                  ![p].hedge_timeout_timer = FALSE]
                       /\ UNCHANGED <<orders_bucket, queries_bucket,
                                      is_auto_paused, trading_state,
                                      symbol_pairs, order_to_pair,
                                      next_pair_id, active_orders,
                                      kiwoom_to_client_id, order_seq, venue,
                                      grant_log>>
           /\ (/\ active_pairs[p].state = "CANCEL_POST_SENT"
               /\ Emitted(last', h, {"ORDER_CANCELLED"}) # {}) =>
                  /\ p \in DOMAIN active_pairs'
                  /\ active_pairs'[p].state = "HEDGE_IOC_SENT"
                  /\ active_pairs'[p].escalation_order_id \in NewVenueOrders
                  /\ \A id \in NewVenueOrders :
                         /\ venue'[id].ioc
                         /\ venue'[id].priority = URGENT
                         /\ venue'[id].leg = "B"]_vars

\* C12: the quantity of every escalation order the broker receives is the
\* unfilled remainder of the hedge at that moment: take_filled_qty less the
\* quantity filled on the hedge-side orders of the pair.
C12_EscalationQuantity ==
    [][\A id \in NewVenueOrders :
           (venue'[id].leg = "B" /\ venue'[id].ioc) =>
               venue'[id].quantity =
                   active_pairs'[id[1]].take_filled_qty
                       - VenueFilled(VenueOrdersOf(id[1], "B"))]_vars

\* C13: on the first fill event of the take leg of a pair in ENTRY_TAKE_SENT,
\* TRADE_FILL or TRADE_PARTIAL, the hedge order is submitted with the take
\* quantity filled so far, the pair enters HEDGE_POST_PENDING and the hedge
\* deadline timer is armed.
C13_HedgeOnFirstTakeFill ==
    [][\A p \in Tracked :
           LET take == active_pairs[p].take_order_id
               fills == Emitted(last', take, {"TRADE_FILL", "TRADE_PARTIAL"})
           IN  (active_pairs[p].state = "ENTRY_TAKE_SENT" /\ fills # {}) =>
                   LET first == CHOOSE i \in fills : \A j \in fills : i <= j
                       hedge == active_pairs'[p].hedge_order_id
                   IN  /\ hedge \in NewVenueOrders
                       /\ venue'[hedge].leg = "B"
                       /\ venue'[hedge].quantity = last'.ev[first].filled_qty
                       /\ active_pairs'[p].state = "HEDGE_POST_PENDING"
                       /\ active_pairs'[p].hedge_timeout_timer]_vars

(***************************************************************************)
(* The gateway: execution reports, event order, ack timeout                *)
(***************************************************************************)
\* the client order ids the gateway has generated
Issued ==
    {id \in OrderIds : id[1] \in DOMAIN order_seq /\ id[2] <= order_seq[id[1]]}

\* the exec_ids of the fills recorded for order id
RecordedExecIds(id) ==
    {active_orders[id].fills[i].exec_id :
        i \in 1..Len(active_orders[id].fills)}

LifecycleEvents ==
    {"ORDER_ACK", "ORDER_REJECTED", "ORDER_ACCEPTED", "TRADE_PARTIAL",
     "TRADE_FILL", "ORDER_CANCELLED", "ORDER_TIMEOUT"}

\* C14: a fill report whose exec_id is already among the fills of an order
\* the gateway tracks leaves filled_quantity and the fills list as they are
\* and emits no TRADE_PARTIAL or TRADE_FILL.
C14_ExecIdIdempotent ==
    [][\A id \in DOMAIN active_orders :
           (/\ last'.op = "on_chejan_data"
            /\ last'.arg[1] = id
            /\ last'.arg[2] = "filled"
            /\ last'.arg[3] \in RecordedExecIds(id)) =>
               /\ id \in DOMAIN active_orders'
               /\ active_orders'[id].filled_quantity
                      = active_orders[id].filled_quantity
               /\ active_orders'[id].fills = active_orders[id].fills
               /\ Emitted(last', id, {"TRADE_PARTIAL", "TRADE_FILL"}) = {}]_vars

\* C15: an execution report, status accepted or a fill, that the broker
\* delivers for an order in SENT (its TR ack not yet processed) is processed:
\* the order becomes ACCEPTED, PARTIALLY_FILLED or FILLED and the
\* corresponding event is emitted.
C15_ReportBeforeAck ==
    [][\A id \in DOMAIN active_orders :
           (/\ last'.op = "on_chejan_data"
            /\ last'.arg[1] = id
            /\ last'.arg[2] \in {"accepted", "filled"}
            /\ active_orders[id].state = "SENT") =>
               /\ id \in DOMAIN active_orders'
               /\ active_orders'[id].state
                      \in {"ACCEPTED", "PARTIALLY_FILLED", "FILLED"}
               /\ Emitted(last', id, {"ORDER_ACCEPTED", "TRADE_PARTIAL",
                                      "TRADE_FILL"}) # {}]_vars

\* C16: the lifecycle events of one client order id follow send, then ack or
\* reject, then partial fills and a fill, or cancelled, or timeout.  A fill
\* event or ORDER_CANCELLED comes only for an acknowledged order, and once
\* an order is FILLED, CANCELLED, REJECTED or TIMEOUT, or its record is
\* gone, no lifecycle event is emitted for its id.
C16_EventOrder ==
    [][\A id \in Issued : \A i \in Emitted(last', id, LifecycleEvents) :
           /\ id \in DOMAIN active_orders
           /\ active_orders[id].state
                  \notin {"FILLED", "CANCELLED", "REJECTED", "TIMEOUT"}
           /\ last'.ev[i].event_type
                  \in {"TRADE_PARTIAL", "TRADE_FILL", "ORDER_CANCELLED"} =>
                  active_orders[id].state
                      \in {"ACCEPTED", "PARTIALLY_FILLED"}]_vars

\* C17: when the ack timer of an order in SENT fires, exactly one
\* ORDER_TIMEOUT is emitted for it and its record is removed, for good, as
\* client order ids are never reused; an ORDER_TIMEOUT is emitted only then,
\* for an order whose TR answer the broker has not delivered; and the ack
\* timer runs only while the order is SENT, so that it is cancelled once
\* the ack or a TR-level rejection is processed.
C17_AckTimeout ==
    [][/\ \A id \in DOMAIN active_orders :
              (/\ last'.op = "tr_timeout"
               /\ last'.arg = <<id>>
               /\ active_orders[id].state = "SENT") =>
                  /\ Cardinality(Emitted(last', id, {"ORDER_TIMEOUT"})) = 1
                  /\ id \notin DOMAIN active_orders'
       /\ \A id \in OrderIds :
              Emitted(last', id, {"ORDER_TIMEOUT"}) # {} =>
                  /\ last'.op = "tr_timeout"
                  /\ last'.arg = <<id>>
                  /\ id \in DOMAIN active_orders
                  /\ active_orders[id].state = "SENT"
                  /\ id \in DOMAIN venue
                  /\ venue[id].tr = "pending"
       /\ \A id \in DOMAIN active_orders' :
              /\ active_orders'[id].tr_timeout_timer =>
                     active_orders'[id].state = "SENT"
              /\ id \notin DOMAIN active_orders => id \notin Issued]_vars

\* C17 happens: the ack timer of one order fired, its ORDER_TIMEOUT was
\* emitted and its record is gone, while another order was acknowledged and
\* its ack timer cancelled.
C17_Witness ==
    /\ last.op = "tr_timeout"
    /\ \E id \in DOMAIN venue :
           /\ last.arg = <<id>>
           /\ Emitted(last, id, {"ORDER_TIMEOUT"}) # {}
           /\ id \notin DOMAIN active_orders
    /\ \E id \in DOMAIN active_orders :
           /\ active_orders[id].state = "ACCEPTED"
           /\ ~active_orders[id].tr_timeout_timer

(***************************************************************************)
(* The session                                                             *)
(***************************************************************************)
\* admission at the time c with the session code code: the overlap window,
\* the trading hours of KRX and the main session of NXT
Admission(c, code) ==
    /\ overlap_window_start <= c /\ c <= overlap_window_end
    /\ krx_start <= c /\ c <= krx_end
    /\ IF use_fid_215_signals THEN code = MAIN_OPEN
       ELSE nxt_start <= c /\ c <= nxt_end

\* C18: once the session is CLOSING and no pair is active, it becomes
\* DISARMED, without the operator disarming it.
C18_ClosingEndsDisarmed ==
    (trading_state = "CLOSING" /\ active_pairs = EmptyMap)
        ~> (trading_state = "DISARMED")

\* C19: the check of every second brings the session in line with
\* admission: a DISARMED session is ARMED after the first check at which
\* admission holds, and an ARMED or TRADING session is CLOSING after the
\* first check at which admission has ceased.
C19_TickFollowsAdmission ==
    [][last'.op = "check_trading_state" =>
          /\ (/\ trading_state = "DISARMED"
              /\ ~Admission(clock, nxt_session_state)
              /\ Admission(clock', nxt_session_state')) =>
                 trading_state' = "ARMED"
          /\ (/\ trading_state \in {"ARMED", "TRADING"}
              /\ Admission(clock, nxt_session_state)
              /\ ~Admission(clock', nxt_session_state')) =>
                 trading_state' = "CLOSING"]_vars

\* C20: when a pair is admitted while the session is ARMED, the session
\* becomes TRADING.
C20_FirstPairStartsTrading ==
    [][(/\ last'.op = "handle_signal"
        /\ last'.result
        /\ trading_state = "ARMED") =>
           trading_state' = "TRADING"]_vars

(***************************************************************************)
(* The session while a pair is in flight                                   *)
(***************************************************************************)
\* the order ids of pair p on its hedge side
HedgeSideOrders(p) ==
    {active_pairs[p].hedge_order_id, active_pairs[p].escalation_order_id}
        \ {NoOrder}

\* C21: when the session code of NXT changes from R to another code while a
\* pair is in flight, the change leaves the pair and its orders as they are
\* and no signal is admitted while the code is not R; the execution events
\* and the hedge deadline of the pair are processed as in an open session:
\* a fill of the take order sends the hedge, a fill on the hedge side
\* completes the pair, a deadline whose cancel is sent moves the pair to
\* CANCEL_POST_SENT and the cancel confirmation escalates it.
C21_MidPairCodeChange ==
    [][/\ (/\ last'.op = "update_nxt_session"
           /\ nxt_session_state = MAIN_OPEN
           /\ nxt_session_state' # MAIN_OPEN
           /\ active_pairs # EmptyMap) =>
              /\ trading_state' # "ARMED"
              /\ UNCHANGED <<active_pairs, symbol_pairs, order_to_pair,
                             active_orders, venue>>
       /\ (/\ last'.op = "handle_signal"
           /\ nxt_session_state # MAIN_OPEN
           /\ active_pairs # EmptyMap) =>
              /\ ~last'.result
              /\ UNCHANGED <<active_pairs, next_pair_id, venue>>
       /\ nxt_session_state # MAIN_OPEN =>
              \A p \in Tracked :
                  LET pt == active_pairs[p] IN
                  /\ (/\ pt.state = "ENTRY_TAKE_SENT"
                      /\ Emitted(last', pt.take_order_id, {"TRADE_FILL"})
                             # {}) =>
                         /\ active_pairs'[p].state = "HEDGE_POST_PENDING"
                         /\ active_pairs'[p].hedge_order_id # NoOrder
                  /\ (/\ pt.state \in {"HEDGE_POST_PENDING",
                                       "CANCEL_POST_SENT", "HEDGE_IOC_SENT"}
                      /\ \E id \in HedgeSideOrders(p) :
                             Emitted(last', id, {"TRADE_FILL"}) # {}) =>
                         active_pairs'[p].state = "PAIRED_DONE"
                  /\ (last'.op = "hedge_timeout" /\ last'.arg = <<p>>) =>
                         /\ ~active_pairs'[p].hedge_timeout_timer
                         /\ (pt.state = "HEDGE_POST_PENDING" /\ last'.result)
                                => /\ active_pairs'[p].state
                                          = "CANCEL_POST_SENT"
                                   /\ venue'[pt.hedge_order_id]
                                          .cancel_requested
                  /\ (/\ pt.state = "CANCEL_POST_SENT"
                      /\ Emitted(last', pt.hedge_order_id,
                                 {"ORDER_CANCELLED"}) # {}) =>
                         /\ active_pairs'[p].state = "HEDGE_IOC_SENT"
                         /\ active_pairs'[p].escalation_order_id # NoOrder
      ]_vars

\* C21 happens: with the session closed by a code other than R, a pair that
\* escalated at its deadline completes on the fill of its escalation order.
C21_Witness ==
    /\ nxt_session_state \notin {MAIN_OPEN, NoSession}
    /\ trading_state = "CLOSING"
    /\ last.op = "on_chejan_data"
    /\ \E p \in Tracked :
           /\ active_pairs[p].state = "PAIRED_DONE"
           /\ active_pairs[p].escalation_order_id # NoOrder
           /\ Emitted(last, active_pairs[p].escalation_order_id,
                      {"TRADE_FILL"}) # {}

(***************************************************************************)
(* The spread engine                                                       *)
(***************************************************************************)
\* the signals the operation l emitted
SignalsOf(l) ==
    {l.ev[i].signal :
        i \in {j \in 1..Len(l.ev) : l.ev[j].event_type = "signal_generated"}}

\* the elements of a list
Elements(list) == {list[i] : i \in 1..Len(list)}

\* the best bid and the best ask of a venue in a snapshot
BidOf(quote, quote_venue) ==
    IF quote_venue = "KRX" THEN quote.krx_bid ELSE quote.nxt_bid

AskOf(quote, quote_venue) ==
    IF quote_venue = "KRX" THEN quote.krx_ask ELSE quote.nxt_ask

\* C22: every signal a sweep emits has buy_venue # sell_venue, sell_price >
\* buy_price, a net edge of at least tick_size(ref) * min_net_ticks and
\* above zero, and is computed from the snapshot of its symbol, in which
\* both venues have ask > bid > 0 and a smaller size of at least
\* min_visible; a symbol whose best sell price does not exceed the buy
\* price in either direction gets no signal.
C22_SignalInvariant ==
    last.op = "process_batch" =>
        /\ \A s \in SignalsOf(last) :
               LET quote == quotes[s.symbol] IN
               /\ s.buy_venue # s.sell_venue
               /\ {s.buy_venue, s.sell_venue} = {"KRX", "NXT"}
               /\ s.sell_price > s.buy_price
               /\ s.buy_price = AskOf(quote, s.buy_venue)
               /\ s.sell_price = BidOf(quote, s.sell_venue)
               /\ s.net_edge_krw >= GetTickSize(Cur, s.symbol)
                                        * min_net_ticks_after_fees * MoneyScale
               /\ s.net_edge_krw > 0
               /\ quote.krx_ask > quote.krx_bid /\ quote.krx_bid > 0
               /\ quote.nxt_ask > quote.nxt_bid /\ quote.nxt_bid > 0
               /\ Min(quote.krx_bid_size, quote.krx_ask_size)
                      >= also_require_min_visible_qty
               /\ Min(quote.nxt_bid_size, quote.nxt_ask_size)
                      >= also_require_min_visible_qty
        /\ \A x \in Elements(last.result.eligible) :
               (/\ quotes[x].nxt_bid <= quotes[x].krx_ask
                /\ quotes[x].krx_bid <= quotes[x].nxt_ask) =>
                   \A s \in SignalsOf(last) : s.symbol # x

\* C22 happens: a sweep emitted a signal that buys on NXT and sells on KRX,
\* where the tick size is 5, for the pilot cap of 10 shares.
C22_Witness ==
    /\ last.op = "process_batch"
    /\ \E s \in SignalsOf(last) :
           /\ s.buy_venue = "NXT"
           /\ GetTickSize(Cur, s.symbol) = 5
           /\ s.max_qty = pilot_cap

\* C23: every eligible symbol that a sweep processes without emitting a
\* signal for it is in cooldown for cooldown_ms after the sweep, and a sweep
\* evaluates no symbol whose cooldown has not run out.
C23_NoSignalEntersCooldown ==
    [][last'.op = "process_batch" =>
          /\ \A x \in Elements(last'.result.eligible) :
                 (\A s \in SignalsOf(last') : s.symbol # x) =>
                     /\ x \in DOMAIN symbol_cooldowns'
                     /\ symbol_cooldowns'[x] = cooldown_ms
          /\ \A x \in DOMAIN symbol_cooldowns :
                 symbol_cooldowns[x] > batch_interval_ms =>
                     x \notin Elements(last'.result.eligible)]_vars

\* C29: the fee cost of every signal is buy_price * bps(buy_venue) / 10000
\* + sell_price * bps(sell_venue) / 10000, the bps of NXT including its
\* regulatory bps, plus sell_price * trade_tax_bps / 10000 when a trade tax
\* is configured, and its net edge is sell_price - buy_price less that cost.
C29_FeeCost ==
    last.op = "process_batch" =>
        \A s \in SignalsOf(last) :
            LET Bps(quote_venue) ==
                    IF quote_venue = "KRX" THEN krx_broker_bps
                    ELSE nxt_broker_bps + nxt_regulatory_bps
                fee_cost ==
                    s.buy_price * Bps(s.buy_venue)
                        + s.sell_price * Bps(s.sell_venue)
                        + (IF trade_tax_bps > 0
                           THEN s.sell_price * trade_tax_bps ELSE 0)
            IN  /\ s.total_fees_krw = fee_cost
                /\ s.net_edge_krw
                       = (s.sell_price - s.buy_price) * MoneyScale - fee_cost

\* C27: for every signal, route_signal produces a take intent with venue =
\* sell_venue, side SELL and priority URGENT and a hedge intent with venue
\* = buy_venue, side BUY and priority NORMAL, both with the pair's id and
\* both with quantity = signal.max_qty; the pair admitted for the signal
\* holds these two intents.
C27_RouteSignal ==
    [][last'.op = "process_batch" =>
          \A s \in SignalsOf(last') :
              \A p \in DOMAIN active_pairs' \ DOMAIN active_pairs :
                  LET r == RouteSignal(s, p)
                      pt == active_pairs'[p]
                  IN  /\ r.take_leg.venue = s.sell_venue
                      /\ r.take_leg.side = "SELL"
                      /\ r.hedge_leg.venue = s.buy_venue
                      /\ r.hedge_leg.side = "BUY"
                      /\ pt.take_leg.priority = URGENT
                      /\ pt.hedge_leg.priority = NORMAL
                      /\ pt.take_leg.pair_id = p
                      /\ pt.hedge_leg.pair_id = p
                      /\ pt.take_leg.quantity = r.take_leg.quantity
                      /\ pt.hedge_leg.quantity = r.hedge_leg.quantity
                      /\ pt.take_leg.quantity = s.max_qty
                      /\ pt.hedge_leg.quantity = s.max_qty]_vars

\* C28: the monitor samples the utilization of the order bucket once a
\* second; a sample below the threshold releases the pause and resets the
\* start of the high stretch; a sample at or above it starts the stretch if
\* none is running and sets the pause only when the stretch has lasted
\* auto_pause_sustain_seconds; between samples the stretch neither starts
\* nor ends, its age grows with the clock only, and nothing but
\* force_auto_pause changes the pause.
C28_AutoPause ==
    [][/\ last'.op = "monitor_utilization" =>
              /\ monitor_timer = TicksPerSec
              /\ IF UtilizationAtLeast(orders_bucket, auto_pause_threshold_pct)
                 THEN /\ high_utilization_start_time' =
                             IF high_utilization_start_time = None
                             THEN 0 ELSE high_utilization_start_time
                      /\ is_auto_paused => is_auto_paused'
                      /\ (is_auto_paused' /\ ~is_auto_paused) =>
                             high_utilization_start_time
                                 >= auto_pause_sustain_seconds * TicksPerSec
                 ELSE /\ high_utilization_start_time' = None
                      /\ ~is_auto_paused'
       /\ last'.op # "monitor_utilization" =>
              /\ (high_utilization_start_time' = None)
                     <=> (high_utilization_start_time = None)
              /\ high_utilization_start_time' # high_utilization_start_time
                     => /\ last'.op = "tick"
                        /\ high_utilization_start_time' =
                               high_utilization_start_time + 1
              /\ last'.op # "force_auto_pause" =>
                     is_auto_paused' = is_auto_paused]_vars

\* C28 happens: the monitor has sampled a utilization at or above the
\* threshold at the end of a stretch of auto_pause_sustain_seconds, and the
\* pause is set.
C28_Witness ==
    /\ last.op = "monitor_utilization"
    /\ is_auto_paused
    /\ high_utilization_start_time = auto_pause_sustain_seconds * TicksPerSec
    /\ UtilizationAtLeast(orders_bucket, auto_pause_threshold_pct)

\* C30: once the hedge deadline of a pair has fired with the pair in
\* HEDGE_POST_PENDING, whether the cancel was sent (CANCEL_POST_SENT) or
\* not, an escalation order is eventually submitted for the pair, or the
\* pair at least leaves HEDGE_POST_PENDING and CANCEL_POST_SENT.
C30_DeadlineEscalates ==
    \A p \in 1..MaxTracedPairs :
        (/\ last.op = "hedge_timeout"
         /\ last.arg[1] = p
         /\ p \in DOMAIN active_pairs
         /\ active_pairs[p].state
                \in {"HEDGE_POST_PENDING", "CANCEL_POST_SENT"})
            ~> (\/ p \notin DOMAIN active_pairs
                \/ active_pairs[p].escalation_order_id # NoOrder
                \/ active_pairs[p].state
                       \notin {"HEDGE_POST_PENDING", "CANCEL_POST_SENT"})

(***************************************************************************)
(* The quote book                                                          *)
(***************************************************************************)
\* the snapshot holds every value the payload carries for the venue
Carries(quote, is_nxt, payload) ==
    LET Abs(v) == IF v < 0 THEN -v ELSE v
        f == VenueFields(quote, is_nxt)
    IN  /\ payload.bid # 0 => f.bid = Abs(payload.bid)
        /\ payload.ask # 0 => f.ask = Abs(payload.ask)
        /\ payload.bid_size # 0 => f.bid_size = Abs(payload.bid_size)
        /\ payload.ask_size # 0 => f.ask_size = Abs(payload.ask_size)

\* the prices and sizes of a snapshot
Values(quote) == <<VenueFields(quote, FALSE), VenueFields(quote, TRUE)>>

\* the symbols whose is_dirty flag is set
Flagged(book) == {x \in DOMAIN book : book[x].is_dirty}

\* C24: once a payload has been applied for a code, the snapshot holds its
\* values, and a take of the dirty set leaves them; applying the payload
\* again while the snapshot holds them, directly after the first time or
\* after takes, sets no dirty flag, adds nothing to the dirty set and emits
\* no quote_updated.
C24_SamePayloadTwice ==
    [][/\ (last'.op = "on_real_data" /\ last'.result) =>
              LET code == last'.arg[1]
                  payload == last'.arg[2]
                  Unchanged == /\ quotes' = quotes
                               /\ dirty_symbols' = dirty_symbols
                               /\ last'.ev = <<>>
              IN  /\ Carries(quotes'[code[1]], IsNxtCode(code), payload)
                  /\ Carries(quotes[code[1]], IsNxtCode(code), payload)
                         => Unchanged
                  /\ (last.op = "on_real_data" /\ last.arg = last'.arg)
                         => Unchanged
       /\ last'.op = "get_dirty_symbols" =>
              \A x \in DOMAIN quotes : Values(quotes'[x]) = Values(quotes[x])
      ]_vars

\* C24 happens: a payload with values was applied to a snapshot that held
\* them already and whose dirty flag a take had cleared, and the symbol
\* stayed clean.
C24_Witness ==
    /\ last.op = "on_real_data"
    /\ last.result
    /\ last.arg[2].bid # 0 /\ last.arg[2].ask # 0
    /\ last.ev = <<>>
    /\ ~quotes[last.arg[1][1]].is_dirty
    /\ dirty_symbols = {}

\* C25: the dirty set is the set of the symbols whose is_dirty flag is set;
\* an update adds to it exactly the symbol whose values it changed; a take
\* returns the dirty set, leaves it empty and the flag of every returned
\* symbol clear, so that it returns the symbols changed since the take
\* before it, each change once.
C25_TakeDirtySet ==
    [][/\ dirty_symbols = Flagged(quotes)
       /\ dirty_symbols' = Flagged(quotes')
       /\ last'.op = "on_real_data" =>
              dirty_symbols' =
                  dirty_symbols
                      \cup {x \in DOMAIN quotes :
                               Values(quotes'[x]) # Values(quotes[x])}
       /\ last'.op = "get_dirty_symbols" =>
              /\ last'.result = dirty_symbols
              /\ dirty_symbols' = {}
              /\ \A x \in last'.result : ~quotes'[x].is_dirty
              /\ \A x \in DOMAIN quotes :
                     Values(quotes'[x]) = Values(quotes[x])]_vars

\* C25 happens: a take returned one changed symbol and not another whose
\* values an earlier take had returned.
C25_Witness ==
    /\ last.op = "get_dirty_symbols"
    /\ \E x \in last.result :
           \E y \in (DOMAIN quotes) \ last.result : quotes[y].krx_bid > 0

\* C26: after load_symbol_universe every screen shard holds at most
\* max_symbols_per_screen symbols and every symbol of the universe is in
\* exactly one shard, once.
C26_ShardsPartition ==
    /\ \A screen_no \in DOMAIN screen_shards :
           Len(screen_shards[screen_no]) <= max_symbols_per_screen
    /\ \A x \in Elements(symbols) :
           /\ Cardinality({screen_no \in DOMAIN screen_shards :
                               x \in Elements(screen_shards[screen_no])}) = 1
           /\ \A screen_no \in DOMAIN screen_shards :
                  Cardinality({j \in 1..Len(screen_shards[screen_no]) :
                                  screen_shards[screen_no][j] = x}) <= 1
           /\ x \in DOMAIN symbol_to_screen
           /\ x \in Elements(screen_shards[symbol_to_screen[x]])

(***************************************************************************)
(* The end of a pair                                                       *)
(***************************************************************************)
\* the pairs that enter the given state in this step
Entering(state) ==
    {p \in DOMAIN active_pairs' :
        /\ active_pairs'[p].state = state
        /\ p \in DOMAIN active_pairs => active_pairs[p].state # state}

C32_PairTerminates ==
    \A p \in 1..MaxTracedPairs :
        (p \in DOMAIN active_pairs)
            ~> (\/ p \notin DOMAIN active_pairs
                \/ active_pairs[p].state \in {"PAIRED_DONE", "FAILED"})

\* every pair id listed under a symbol is a pair of active_pairs with that
\* symbol
C33_SymbolPairsTracked ==
    \A symbol \in DOMAIN symbol_pairs :
        \A i \in 1..Len(symbol_pairs[symbol]) :
            /\ symbol_pairs[symbol][i] \in DOMAIN active_pairs
            /\ active_pairs[symbol_pairs[symbol][i]].symbol = symbol

\* the step that removes a pair removes its order-to-pair mappings and its
\* entry under the symbol
C33_RemovalComplete ==
    \A p \in (DOMAIN active_pairs) \ (DOMAIN active_pairs') :
        /\ \A o \in DOMAIN order_to_pair' : order_to_pair'[o] # p
        /\ \A symbol \in DOMAIN symbol_pairs' :
               \A i \in 1..Len(symbol_pairs'[symbol]) :
                   symbol_pairs'[symbol][i] # p

\* C33: every pair that has reached PAIRED_DONE or FAILED is eventually
\* removed from active_pairs; the step that removes it removes its
\* order-to-pair mappings and its entry under the symbol as well; and in
\* every state every pair id listed under a symbol is a pair of
\* active_pairs with that symbol
C33_FinishedPairRemoved ==
    /\ []C33_SymbolPairsTracked
    /\ [][C33_RemovalComplete]_vars
    /\ \A p \in 1..MaxPairs :
           (/\ p \in DOMAIN active_pairs
            /\ active_pairs[p].state \in {"PAIRED_DONE", "FAILED"})
               ~> (p \notin DOMAIN active_pairs)


(***************************************************************************)
(* The forced close                                                        *)
(***************************************************************************)
\* the hedge orders that cancel_order can send a cancel for: it knows the
\* order and its broker order number
CancellableHedges ==
    {active_pairs[p].hedge_order_id : p \in DOMAIN active_pairs}
        \cap {id \in DOMAIN active_orders :
                  active_orders[id].kiwoom_order_number # NoOrder}

\* the orders whose cancel reaches the broker in this step
CancelsSent ==
    {id \in DOMAIN venue' :
         /\ venue'[id].cancel_requested
         /\ id \in DOMAIN venue => ~venue[id].cancel_requested}

C35_BothTokensGranted ==
    [][/\ (last'.op = "handle_signal" /\ last'.result = TRUE) =>
              /\ Len(last'.req) = 1
              /\ last'.req[1].token_type = ORDERS
              /\ last'.req[1].priority = URGENT
              /\ last'.req[1].granted
       /\ \A p \in DOMAIN active_pairs :
              (/\ Cardinality(DOMAIN active_pairs) = 1
               /\ next_pair_id = p + 1
               /\ active_pairs[p].state = "ENTRY_TAKE_SENT"
               /\ last'.op = "on_chejan_data"
               /\ last'.arg[1] = active_pairs[p].take_order_id
               /\ last'.arg[2] = "filled"
               /\ Len(last'.req) > 0) =>
                  /\ last'.req[1].token_type = ORDERS
                  /\ last'.req[1].priority = NORMAL
                  /\ last'.req[1].granted]_vars

\* the hedge-side orders of pair p, the hedge and its escalations, that are
\* live at the broker
LiveHedgeSide(p) ==
    {id \in DOMAIN venue :
         id[1] = p /\ venue[id].leg = "B" /\ venue[id].live}

\* C36: at any time at most one hedge-side order of a pair, the hedge or an
\* escalation, is live at the broker
C36_OneHedgeSideLive ==
    \A p \in 1..MaxPairs : Cardinality(LiveHedgeSide(p)) <= 1

(***************************************************************************)
(* The end of an order record                                              *)
(***************************************************************************)
\* every entry of the reverse map leads to a tracked record with that
\* broker order number
C37_ReverseMapTracked ==
    \A k \in DOMAIN kiwoom_to_client_id :
        /\ kiwoom_to_client_id[k] \in DOMAIN active_orders
        /\ active_orders[kiwoom_to_client_id[k]].kiwoom_order_number = k

\* C37: every order record that has become REJECTED, TIMEOUT, CANCELLED or
\* FILLED is eventually removed from active_orders with its entry in the
\* reverse map, and in every state every entry of the reverse map leads to
\* a record of active_orders with that broker order number
C37_FinishedOrderRemoved ==
    /\ []C37_ReverseMapTracked
    /\ \A id \in OrderIds :
           (/\ id \in DOMAIN active_orders
            /\ active_orders[id].state \in
                   {"REJECTED", "TIMEOUT", "CANCELLED", "FILLED"})
               ~> (/\ id \notin DOMAIN active_orders
                   /\ \A k \in DOMAIN kiwoom_to_client_id :
                          kiwoom_to_client_id[k] # id)

(***************************************************************************)
(* The statistics                                                          *)
(***************************************************************************)
\* the pairs that become PAIRED_DONE or FAILED in this step
BecomingTerminal ==
    {p \in DOMAIN active_pairs' :
         /\ active_pairs'[p].state \in {"PAIRED_DONE", "FAILED"}
         /\ p \in DOMAIN active_pairs =>
                active_pairs[p].state \notin {"PAIRED_DONE", "FAILED"}}

\* C38: after every handler completed_pairs + failed_pairs is at most
\* total_pairs, and every handler adds to completed_pairs the number of
\* pairs it makes PAIRED_DONE and to failed_pairs the number of pairs it
\* makes FAILED, counting the pairs that become terminal in it and no other
C38_CountedOnce ==
    /\ [](stats.completed_pairs + stats.failed_pairs <= stats.total_pairs)
    /\ [][/\ stats'.completed_pairs - stats.completed_pairs =
                 Cardinality({p \in BecomingTerminal :
                                  active_pairs'[p].state = "PAIRED_DONE"})
          /\ stats'.failed_pairs - stats.failed_pairs =
                 Cardinality({p \in BecomingTerminal :
                                  active_pairs'[p].state = "FAILED"})]_vars

(***************************************************************************)
(* The sweep and the cooldown                                              *)
(***************************************************************************)
\* the symbols for which this step emits a signal or starts a cooldown: the
\* symbols it has evaluated with an outcome
EvaluatedInStep ==
    {x \in Symbols :
         \/ \E i \in 1..Len(last'.ev) :
                /\ last'.ev[i].event_type = "signal_generated"
                /\ last'.ev[i].signal.symbol = x
         \/ /\ x \in DOMAIN symbol_cooldowns'
            /\ symbol_cooldowns'[x] = cooldown_ms}

\* C39: a sweep that runs takes the whole dirty set and evaluates none of its
\* symbols that are in cooldown: it emits no signal for them and their
\* cooldowns run on; a sweep evaluates only symbols that were in the dirty
\* set, so that a symbol whose update arrived during its cooldown is not
\* evaluated when the cooldown has expired until it is dirty again; and a
\* sweep that is skipped because the session cannot trade leaves the dirty
\* set, the dirty flags and the cooldowns as they are, the cooldowns with
\* batch_interval_ms less to run
C39_CooldownSweep ==
    [][last'.op = "process_batch" =>
          LET elapsed == Elapse(Cur, batch_interval_ms).symbol_cooldowns IN
          IF last'.result.ran
          THEN /\ dirty_symbols' = {}
               /\ \A x \in dirty_symbols : ~quotes'[x].is_dirty
               /\ EvaluatedInStep \subseteq dirty_symbols
               /\ \A x \in dirty_symbols :
                      (x \in DOMAIN elapsed /\ elapsed[x] > 0) =>
                          /\ x \notin EvaluatedInStep
                          /\ x \in DOMAIN symbol_cooldowns'
                          /\ symbol_cooldowns'[x] = elapsed[x]
          ELSE /\ dirty_symbols' = dirty_symbols
               /\ quotes' = quotes
               /\ symbol_cooldowns' = elapsed]_vars

\* C39 witness: a sweep has run and taken a dirty set whose symbol is in
\* cooldown, with a valid quote, and has found nothing eligible
C39_Witness ==
    /\ last.op = "process_batch"
    /\ last.result.ran
    /\ last.result.eligible = <<>>
    /\ dirty_symbols = {}
    /\ \E x \in last.result.dirty :
           /\ x \in DOMAIN symbol_cooldowns
           /\ symbol_cooldowns[x] > 0
           /\ IsQuoteValid(quotes[x])
           /\ ~quotes[x].is_dirty

(***************************************************************************)
(* The two directions                                                      *)
(***************************************************************************)
\* the candidate of _calculate_edge that buys on KRX and sells on NXT
KrxNxtEdge(symbol, quote) ==
    CalculateDirectionEdge(symbol, "KRX", quote.krx_ask, quote.krx_ask_size,
                           "NXT", quote.nxt_bid, quote.nxt_bid_size)

\* the candidate of _calculate_edge that buys on NXT and sells on KRX
NxtKrxEdge(symbol, quote) ==
    CalculateDirectionEdge(symbol, "NXT", quote.nxt_ask, quote.nxt_ask_size,
                           "KRX", quote.krx_bid, quote.krx_bid_size)

\* C40: for every snapshot that passes _is_quote_valid at most one of the
\* two directions is crossed, so that _calculate_edge has at most one
\* candidate and never chooses between two
C40_OneDirection ==
    \A x \in DOMAIN quotes :
        IsQuoteValid(quotes[x]) =>
            \/ KrxNxtEdge(x, quotes[x]) = NoSignal
            \/ NxtKrxEdge(x, quotes[x]) = NoSignal

\* C40 witness: a sweep has emitted the signal of a valid snapshot that is
\* crossed in one direction
C40_Witness ==
    /\ last.op = "process_batch"
    /\ \E i \in 1..Len(last.ev) :
           /\ last.ev[i].event_type = "signal_generated"
           /\ LET x == last.ev[i].signal.symbol IN
              /\ IsQuoteValid(quotes[x])
              /\ last.ev[i].signal = KrxNxtEdge(x, quotes[x])
              /\ NxtKrxEdge(x, quotes[x]) = NoSignal

====
